---- MODULE Spec2Model ----
(***************************************************************************)
(* A model of the PSD corrector plugin (src/psd_corrector): the compute    *)
(* scheduler of handlers.py (Start/Stop operators, frame and depsgraph     *)
(* hooks, the self re-arming timer, the play-state notification), the rate *)
(* limiter and the compute pass of core.py (change-detection cache,        *)
(* per-entry weights, in-memory ResultStore, flush) and the operators of   *)
(* operators.py that edit the saved entries and the caches.                *)
(*                                                                         *)
(* Time is counted in ticks of 1/TicksPerSecond seconds.  The code only    *)
(* ever reads the difference time.time() - last_compute_time, so the model *)
(* keeps that difference (saturating at MaxElapsed) instead of two clocks. *)
(*                                                                         *)
(* Joint transforms, radii and distances are whole multiples of            *)
(* 1/Resolution (degrees or scene units); weights are whole multiples of   *)
(* 1/WeightScale.  Names are sequences of one-character strings.           *)
(***************************************************************************)
EXTENDS Integers, Sequences, FiniteSets, TLC

\* ------------------------------------------------------------------ bounds
TicksPerSecond == 4
MaxTimers == 2
MaxElapsed == TicksPerSecond + 1
MaxEntries == 2
MaxTriggers == 1
MaxPairs == 2
Resolution == 500000
WeightScale == 1000
TrigScale == 1000

Modes == {"AUTO", "FORCE_PLAY", "FORCE_TIMER"}
HzValues == {1, 2, 240}

\* the armature objects of bpy.data.objects and the bones each of them has
AllArms == {"arm1", "arm2"}
ArmBones == {<<"L">>, <<"R">>}
NoObject == "none"

VARIABLES
    \* scene properties (props.py)
    psd_running, psd_mode, psd_idle_hz,
    \* host state
    is_animation_playing,      \* screen.is_animation_playing
    depsgraph_update_post,     \* bpy.app.handlers.depsgraph_update_post (our handlers in it)
    frame_change_post,         \* bpy.app.handlers.frame_change_post
    timers,                    \* callbacks registered with bpy.app.timers: [fresh, old]
    notify_pending,            \* a msgbus notification not yet delivered
    \* module globals of handlers.py
    psd_timer_registered, msgbus_subscribed,
    \* core.py: time.time() - last_compute_time, saturated at MaxElapsed
    since_last_compute,
    \* host data: the armature objects, their bones' current local transforms
    armatures, pose,
    \* per-armature properties (props.py)
    psd_saved_poses, psd_saved_pose_index, psd_bone_pairs, psd_triggers,
    \* the list selections of the bone filter and of the triggers, and the
    \* configuration file the export operator wrote or the user provided
    psd_bone_pairs_index, psd_trigger_index, config_file,
    \* custom properties of the armature datablock, whether an Empty is
    \* registered for the armature, custom properties of that Empty
    arm_db, cache_empty, empty_props,
    \* core.py / utils.py module globals
    psd_bone_state_cache, psd_results_cache,
    \* per-armature output mode and driver file lists (props.py): each list item
    \* stands for the document its filepath names
    psd_output_mode, psd_shape_driver_files, psd_pose_driver_files,
    \* core.py: the compiled drivers per armature, None before the first load
    shape_expressions_cache, pose_drivers_cache,
    \* caches.py: the driver outputs and the inputs they were computed from
    psd_math_cache, psd_math_dep_cache,
    \* host data the drivers write: shape key values per mesh, constraint
    \* properties per armature and bone
    shape_keys, constraints,
    \* observation: ticks since the last pass that really executed; whether no
    \* step but passes happened since it; the armatures the invalidate operator
    \* was run for since it; the keys a remove operator was to purge; what the
    \* last step did; the samples the last executed pass took per armature
    since_last_pass, quiet_since_pass, invalidated, purged, pass_samples, event

schedVars == <<psd_running, psd_mode, psd_idle_hz, is_animation_playing,
               depsgraph_update_post, frame_change_post, timers, notify_pending,
               psd_timer_registered, msgbus_subscribed>>
timeVars == <<since_last_compute, since_last_pass>>
hostVars == <<armatures, pose>>
configVars == <<psd_saved_poses, psd_saved_pose_index, psd_bone_pairs, arm_db, cache_empty>>
storeVars == <<psd_bone_state_cache, psd_results_cache, empty_props>>
ghostVars == <<quiet_since_pass, invalidated, purged, pass_samples>>
editVars == <<psd_bone_pairs_index, psd_trigger_index, config_file>>
driverVars == <<psd_output_mode, psd_shape_driver_files, psd_pose_driver_files,
                shape_expressions_cache, pose_drivers_cache,
                psd_math_cache, psd_math_dep_cache, shape_keys, constraints>>
passVars == <<hostVars, configVars, psd_triggers, storeVars, ghostVars, editVars, driverVars>>
vars == <<schedVars, timeVars, passVars, event>>

Min(a, b) == IF a < b THEN a ELSE b
Max(a, b) == IF a > b THEN a ELSE b
Abs(a) == IF a < 0 THEN -a ELSE a

\* dictionaries are functions; the empty one is <<>>
Put(f, k, v) == [x \in DOMAIN f \cup {k} |-> IF x = k THEN v ELSE f[x]]
Drop(f, k) == [x \in DOMAIN f \ {k} |-> f[x]]

NoEvent == [kind |-> "none", called |-> FALSE, executed |-> FALSE, armed |-> FALSE,
            rescheduled |-> FALSE, old |-> FALSE, gap |-> 0,
            quiet |-> FALSE, invalidated |-> {}, recomputed |-> {}, writes |-> {},
            arm |-> NoObject, triggers |-> {},
            before |-> <<>>, pairs_before |-> <<>>, name |-> <<>>, bone |-> <<>>,
            repeat |-> FALSE, input |-> <<>>, result |-> <<>>,
            processed |-> {}, flushed |-> {}, shape_evaluated |-> {},
            pose_evaluated |-> {}, shape_writes |-> {}, pose_writes |-> {},
            raised |-> FALSE, outcome |-> "none", skipped |-> {},
            previous |-> <<>>, order |-> <<>>]

TimerCount == timers.fresh + timers.old

\* ------------------------------------------------------------ names and keys
Whitespace == {" ", "\t", "\n"}
SafeChars == {"0", "1", "2", "3", "4", "5", "6", "7", "8", "9", "_", "-",
              "a", "b", "c", "d", "e", "f", "g", "h", "i", "j", "k", "l", "m",
              "n", "o", "p", "q", "r", "s", "t", "u", "v", "w", "x", "y", "z",
              "A", "B", "C", "D", "E", "F", "G", "H", "I", "J", "K", "L", "M",
              "N", "O", "P", "Q", "R", "S", "T", "U", "V", "W", "X", "Y", "Z"}

RECURSIVE LStrip(_)
LStrip(s) == IF s # <<>> /\ Head(s) \in Whitespace THEN LStrip(Tail(s)) ELSE s

RECURSIVE RStrip(_)
RStrip(s) ==
    IF s # <<>> /\ s[Len(s)] \in Whitespace THEN RStrip(SubSeq(s, 1, Len(s) - 1)) ELSE s

\* re.sub(r"\s+", "_", s)
RECURSIVE CollapseSpace(_)
CollapseSpace(s) ==
    IF s = <<>> THEN <<>>
    ELSE IF Head(s) \in Whitespace THEN <<"_">> \o CollapseSpace(LStrip(Tail(s)))
    ELSE <<Head(s)>> \o CollapseSpace(Tail(s))

\* utils._safe_name
SafeName(s) ==
    LET t == CollapseSpace(RStrip(LStrip(s)))
    IN [i \in 1..Len(t) |-> IF t[i] \in SafeChars THEN t[i] ELSE "_"]

PREFIX_RESULT == <<"p", "s", "d", "_", "r", "o", "t", "_">>
PREFIX_RESULT_LOC == <<"p", "s", "d", "_", "l", "o", "c", "_">>
PREFIX_RESULT_SCA == <<"p", "s", "d", "_", "s", "c", "a", "_">>

\* f"{prefix}{_safe_name(bn)}_{_safe_name(en)}"
ResultKey(prefix, bn, en) == prefix \o SafeName(bn) \o <<"_">> \o SafeName(en)

TriggerKey(trig) ==
    ResultKey(PREFIX_RESULT_LOC, trig.target_bone, trig.name) \o <<"_", "w">>

\* as_pointer() of the object, and its name: the two kinds of cache key
ArmPtr(a) == <<"ptr", a>>
ArmName(a) == <<"name", a>>

\* ---------------------------------------------------------------- math_utils
V3Sub(a, b) == <<a[1] - b[1], a[2] - b[2], a[3] - b[3]>>
Dot(a, b) == a[1] * b[1] + a[2] * b[2] + a[3] * b[3]
Zero3 == <<0, 0, 0>>
One3 == <<Resolution, Resolution, Resolution>>

\* a projection that is cut at 1 instead of mirrored between 1 and 2
TriangularWeightNoFold(dot, denom) ==
    IF dot < 0 \/ dot > 2 * denom THEN 0
    ELSE IF dot > denom THEN WeightScale
    ELSE (dot * WeightScale) \div denom

\* w = dot / denom; 0 below 0 and above 2, mirrored between 1 and 2
TriangularWeight(dot, denom) ==
    IF dot < 0 \/ dot > 2 * denom THEN 0
    ELSE IF dot > denom THEN 2 * WeightScale - (dot * WeightScale) \div denom
    ELSE (dot * WeightScale) \div denom

\* the location threshold set to the rotation threshold, 1e-6
LocDegenerateAsRot == (Resolution \div 1000) * (Resolution \div 1000)

\* thresholds of the degenerate cases, in model units
RotDegenerate == (Resolution \div 1000) * (Resolution \div 1000)
LocDegenerate == 1

\* The cone branch works on whole degrees: sines and cosines are multiples of
\* 1/TrigScale and are known for the multiples of 30 degrees only, so the
\* branch is defined for rotations of whole multiples of 30 degrees whose
\* cone-axis directions are whole multiples of 30 degrees apart.
ConeAngles == {0, 30, 60, 90, 120, 150, 180}

\* the value in whole degrees of a rotation component given in model units
Degrees(v) == CHOOSE d \in -360..360 : d * Resolution = v

\* math.cos of an angle y of 0 to 180 degrees
CosFolded(y) ==
    CASE y = 0 -> TrigScale
      [] y = 30 -> (TrigScale * 866) \div 1000
      [] y = 60 -> TrigScale \div 2
      [] y = 90 -> 0
      [] y = 120 -> -(TrigScale \div 2)
      [] y = 150 -> -((TrigScale * 866) \div 1000)
      [] y = 180 -> -TrigScale

\* math.cos and math.sin of math.radians(d)
CosDeg(d) == CosFolded(IF (d % 360) > 180 THEN 360 - (d % 360) ELSE d % 360)

SinDeg(d) == CosDeg(d - 90)

\* a product of two numbers in 1/TrigScale, rounded to the nearest
TrigMul(a, b) == (2 * a * b + TrigScale) \div (2 * TrigScale)

\* the column of the matrix of Euler((x, y, z), 'XYZ'), which is Rz * Ry * Rx,
\* that is the image of the base vector of axis
MatrixColumn(cx, sx, cy, sy, cz, sz, axis) ==
    IF axis = "X"
    THEN <<TrigMul(cy, cz), TrigMul(cy, sz), -sy>>
    ELSE IF axis = "Y"
    THEN <<TrigMul(TrigMul(sx, sy), cz) - TrigMul(cx, sz),
           TrigMul(TrigMul(sx, sy), sz) + TrigMul(cx, cz),
           TrigMul(sx, cy)>>
    ELSE <<TrigMul(TrigMul(cx, sy), cz) + TrigMul(sx, sz),
           TrigMul(TrigMul(cx, sy), sz) - TrigMul(sx, cz),
           TrigMul(cx, cy)>>

\* _euler_deg_to_dir, of a rotation in whole degrees
EulerDegToDir(rot_deg, axis) ==
    MatrixColumn(CosDeg(rot_deg[1]), SinDeg(rot_deg[1]),
                 CosDeg(rot_deg[2]), SinDeg(rot_deg[2]),
                 CosDeg(rot_deg[3]), SinDeg(rot_deg[3]), axis)

\* the angle of the table whose cosine, in 1/TrigScale^2, is nearest to c
ACosNearest(c) ==
    CHOOSE a \in ConeAngles :
        \A b \in ConeAngles :
            Abs(CosDeg(a) * TrigScale - c) <= Abs(CosDeg(b) * TrigScale - c)

\* math.degrees(math.acos(max(-1, min(1, dot)))) for a dot product in
\* 1/TrigScale^2
ACosDeg(dot) == ACosNearest(Max(-(TrigScale * TrigScale), Min(TrigScale * TrigScale, dot)))

\* a rotation in model units as whole degrees
DegreesOf(rot) == <<Degrees(rot[1]), Degrees(rot[2]), Degrees(rot[3])>>

\* a cone without falloff: 1 everywhere inside the cone
ConeFalloffFlat(angle_deg, cone_angle) ==
    IF angle_deg <= cone_angle THEN WeightScale ELSE 0

\* w = 1 - angle / cone_angle inside the cone (1 if cone_angle is 0), 0 outside
ConeFalloff(angle_deg, cone_angle) ==
    IF angle_deg <= cone_angle
    THEN (IF cone_angle > 0
          THEN WeightScale - (angle_deg * WeightScale) \div cone_angle
          ELSE WeightScale)
    ELSE 0

\* compute_rotation_weight, cone branch; cone_angle is in whole degrees
ConeWeight(entry, cur_rot) ==
    ConeFalloff(ACosDeg(Dot(EulerDegToDir(DegreesOf(entry.pose_rot), entry.cone_axis),
                            EulerDegToDir(DegreesOf(cur_rot), entry.cone_axis))),
                entry.cone_angle)

\* compute_rotation_weight, projection branch
ProjectionWeight(entry, cur_rot) ==
    LET pose_dir == V3Sub(entry.pose_rot, entry.rest_rot)
        cur_rel == V3Sub(cur_rot, entry.rest_rot)
        denom == Dot(pose_dir, pose_dir)
    IN IF denom < RotDegenerate
       THEN (IF Dot(cur_rel, cur_rel) < RotDegenerate THEN WeightScale ELSE 0)
       ELSE TriangularWeight(Dot(cur_rel, pose_dir), denom)

\* w = max(0.0, min(1.0, w))
Clamp01(w) == Max(0, Min(WeightScale, w))

\* compute_rotation_weight
RotationWeight(entry, cur_rot) ==
    Clamp01(IF entry.cone_enabled THEN ConeWeight(entry, cur_rot)
            ELSE ProjectionWeight(entry, cur_rot))

\* compute_direct_channel_weight with record_rot_channel_mode = 'NONE':
\* math.radians of the Euler component of the channel axis, not clamped;
\* pi is 355/113 and the component is taken in thousandths of a degree
DirectChannelWeight(entry, cur_rot) ==
    LET axis_idx == IF entry.channel_axis = "Y" THEN 2
                    ELSE IF entry.channel_axis = "Z" THEN 3 ELSE 1
        v == cur_rot[axis_idx]
        md == Abs(v) \div (Resolution \div 1000)
        w == (((md * 355) \div 113) * WeightScale) \div 180000
    IN IF v < 0 THEN -w ELSE w

\* max(0, 1 - |d| / radius)
AxisFalloff(d, radius) == Max(0, WeightScale - (Abs(d) * WeightScale) \div radius)

\* compute_location_weight
LocationWeight(entry, cur_loc) ==
    IF entry.loc_enabled
    THEN LET d == V3Sub(cur_loc, entry.pose_loc)
         IN IF entry.loc_radius <= 0
            THEN (IF Dot(d, d) < LocDegenerate THEN WeightScale ELSE 0)
            ELSE (((AxisFalloff(d[1], entry.loc_radius) * AxisFalloff(d[2], entry.loc_radius))
                     \div WeightScale) * AxisFalloff(d[3], entry.loc_radius)) \div WeightScale
    ELSE LET direction == V3Sub(entry.pose_loc, entry.rest_loc)
             cur_rel == V3Sub(cur_loc, entry.rest_loc)
             len2 == Dot(direction, direction)
         IN IF len2 < LocDegenerate
            THEN (IF Dot(cur_rel, cur_rel) < LocDegenerate THEN WeightScale ELSE 0)
            ELSE TriangularWeight(Dot(cur_rel, direction), len2)

\* compute_scale_weight
ScaleWeight(entry, cur_sca) ==
    LET direction == V3Sub(entry.pose_sca, entry.rest_sca)
        cur_rel == V3Sub(cur_sca, entry.rest_sca)
        len2 == Dot(direction, direction)
    IN IF len2 < LocDegenerate
       THEN (IF Dot(cur_rel, cur_rel) < LocDegenerate THEN WeightScale ELSE 0)
       ELSE TriangularWeight(Dot(cur_rel, direction), len2)

\* a SMOOTH falloff that is the smoothstep itself, not its inverse
TriggerWeightSmoothstep(trig, d) ==
    LET r == Max(1, trig.radius)
        t == Min((d * WeightScale) \div r, WeightScale)
    IN IF trig.falloff = "SMOOTH"
       THEN (3 * t * t) \div WeightScale - (2 * t * t * t) \div (WeightScale * WeightScale)
       ELSE Max(0, WeightScale - (d * WeightScale) \div r)

\* compute_triggers: the weight of one trigger at head distance d
TriggerWeight(trig, d) ==
    LET r == Max(1, trig.radius)
        t == Min((d * WeightScale) \div r, WeightScale)
    IN IF trig.falloff = "SMOOTH"
       THEN WeightScale - ((3 * t * t) \div WeightScale
                            - (2 * t * t * t) \div (WeightScale * WeightScale))
       ELSE Max(0, WeightScale - (d * WeightScale) \div r)

\* ------------------------------------------------------------ utils.py store
\* the write threshold 0.001 of psd_set_result_cache_only and of the flush
WriteThreshold == WeightScale \div 1000

\* psd_set_result_cache_only on the accumulator [mem, writes]
SetResult(acc, bone, key, w) ==
    IF key \notin DOMAIN acc.mem \/ Abs(acc.mem[key] - w) > WriteThreshold
    THEN [mem |-> Put(acc.mem, key, w),
          writes |-> acc.writes \cup {[bone |-> bone, key |-> key]}]
    ELSE acc

\* the flush comparing only with values the Empty already holds
FlushKnownKeysOnly(a, mem) ==
    IF mem = <<>> \/ ~cache_empty[a] THEN empty_props[a]
    ELSE [k \in DOMAIN empty_props[a] |->
             IF k \in DOMAIN mem /\ Abs(empty_props[a][k] - mem[k]) > WriteThreshold
             THEN mem[k] ELSE empty_props[a][k]]

\* psd_flush_mem_to_registered_empty: the Empty's properties afterwards
FlushMemToRegisteredEmpty(a, mem) ==
    IF mem = <<>> \/ ~cache_empty[a] THEN empty_props[a]
    ELSE LET changes == {k \in DOMAIN mem :
                            \/ k \notin DOMAIN empty_props[a]
                            \/ Abs(empty_props[a][k] - mem[k]) > WriteThreshold}
         IN [k \in DOMAIN empty_props[a] \cup changes |->
                IF k \in changes THEN mem[k] ELSE empty_props[a][k]]

\* the flush tagging the Empty whenever it got as far as comparing
FlushTaggedAlways(a, mem) == mem # <<>> /\ cache_empty[a]

\* psd_flush_mem_to_registered_empty: whether cache_obj.update_tag() is
\* reached, which is when changes has items (the function then returns True)
FlushTagged(a, mem) ==
    /\ mem # <<>> /\ cache_empty[a]
    /\ \E k \in DOMAIN mem :
          \/ k \notin DOMAIN empty_props[a]
          \/ Abs(empty_props[a][k] - mem[k]) > WriteThreshold

\* ----------------------------------------------------- core.py compute pass
\* _PSD_EPS = 1e-5
PsdEps == Resolution \div 100000
None == <<>>

\* bone_filter: the names in psd_bone_pairs when the list has items, else
\* the bone names of the saved entries
BoneFilter(a) ==
    IF Len(psd_bone_pairs[a]) > 0
    THEN {psd_bone_pairs[a][i] : i \in DOMAIN psd_bone_pairs[a]} \ {<<>>}
    ELSE {psd_saved_poses[a][i].bone_name : i \in DOMAIN psd_saved_poses[a]} \ {<<>>}

\* the sampling giving up on every joint once one of them fails
SampledAllOrNothing(a) ==
    IF BoneFilter(a) \subseteq ArmBones THEN BoneFilter(a) ELSE {}

\* the bones of the filter the armature really has: those get sampled. The
\* host builds pose.bones from data.bones, so the two samplers and
\* pose.bones.get fail for the same names
Sampled(a) == BoneFilter(a) \cap ArmBones

\* _psd_make_sample_from_maps: transforms are whole units, finer than the
\* 6 decimals of the rounding, so rounding leaves them as they are
MakeSample(a, bn) ==
    IF bn \in ArmBones
    THEN <<pose[a][bn].loc, pose[a][bn].rot, pose[a][bn].sca>>
    ELSE <<None, None, None>>

\* _psd_samples_equal
SamplesEqual(s1, s2) ==
    \A i \in 1..3 :
        /\ s1[i] # None /\ s2[i] # None
        /\ \A j \in 1..3 : Abs(s1[i][j] - s2[i][j]) <= PsdEps

\* the one-time move of a cache kept under the armature's name
Migrate(a, cache) ==
    IF ArmPtr(a) \notin DOMAIN cache /\ ArmName(a) \in DOMAIN cache
    THEN Put(Drop(cache, ArmName(a)), ArmPtr(a), cache[ArmName(a)])
    ELSE cache

\* arm_cache = _psd_bone_state_cache.setdefault(arm_key, {})
ArmCache(a, cache) == IF ArmPtr(a) \in DOMAIN cache THEN cache[ArmPtr(a)] ELSE <<>>

Unchanged(a, bn, arm_cache) ==
    bn \in DOMAIN arm_cache /\ SamplesEqual(MakeSample(a, bn), arm_cache[bn])

\* the pass without the exemption of the triggers' bones
NoTriggerBones(a) == {}

\* bones named by any trigger of the armature, enabled or not
TriggerBones(a) ==
    ({psd_triggers[a][i].bone_name : i \in DOMAIN psd_triggers[a]}
       \cup {psd_triggers[a][i].target_bone : i \in DOMAIN psd_triggers[a]}) \ {<<>>}

\* the pass with change detection switched off
SkipBonesOff(a) == {}

\* the pass comparing with the previous pass's samples whatever it stored
SkipBonesPrevious(a) ==
    {bn \in BoneFilter(a) :
        bn \in DOMAIN pass_samples[a] /\ SamplesEqual(MakeSample(a, bn), pass_samples[a][bn])}
       \ TriggerBones(a)

SkipBones(a) ==
    LET arm_cache == ArmCache(a, Migrate(a, psd_bone_state_cache))
    IN {bn \in BoneFilter(a) : Unchanged(a, bn, arm_cache)} \ TriggerBones(a)

\* the cache after the pass has handled armature a
CacheAfterArm(a, cache) ==
    LET c == Migrate(a, cache)
        arm_cache == ArmCache(a, c)
        changed == {bn \in BoneFilter(a) : ~Unchanged(a, bn, arm_cache)}
    IN IF psd_saved_poses[a] = <<>> THEN c
       ELSE Put(c, ArmPtr(a),
                [bn \in DOMAIN arm_cache \cup changed |->
                    IF bn \in changed THEN MakeSample(a, bn) ELSE arm_cache[bn]])

RECURSIVE CacheAfterPass(_, _)
CacheAfterPass(arms, cache) ==
    IF arms = {} THEN cache
    ELSE LET a == CHOOSE x \in arms : TRUE
         IN CacheAfterPass(arms \ {a}, CacheAfterArm(a, cache))

\* distance between the heads of two bones
HeadDistance(a, b1, b2) == Abs(pose[a][b2].head - pose[a][b1].head)

\* compute_triggers: [mem, writes, trigs] after the triggers from i on
RECURSIVE ComputeTriggers(_, _, _)
ComputeTriggers(a, i, acc) ==
    IF i > Len(acc.trigs) THEN acc
    ELSE LET trig == acc.trigs[i]
             found == trig.bone_name \in ArmBones /\ trig.target_bone \in ArmBones
             w == IF found
                  THEN TriggerWeight(trig, HeadDistance(a, trig.bone_name, trig.target_bone))
                  ELSE 0
             stored == IF found
                       THEN SetResult([mem |-> acc.mem, writes |-> acc.writes],
                                      trig.target_bone, TriggerKey(trig), w)
                       ELSE [mem |-> acc.mem, writes |-> acc.writes]
         IN IF ~trig.enabled THEN ComputeTriggers(a, i + 1, acc)
            ELSE ComputeTriggers(a, i + 1,
                    [mem |-> stored.mem, writes |-> stored.writes,
                     trigs |-> [acc.trigs EXCEPT ![i].last_weight = w]])

\* an entry the loop does not pass over: it has both names, its bone is in the
\* filter and was sampled
Eligible(a, entry) ==
    /\ entry.bone_name # <<>> /\ entry.name # <<>>
    /\ entry.bone_name \in Sampled(a)

\* the channels of one entry that is not skipped
ComputeEntry(a, entry, acc) ==
    LET bn == entry.bone_name
        d == IF entry.is_direct_channel
             THEN SetResult(acc, bn, ResultKey(PREFIX_RESULT, bn, entry.name),
                            DirectChannelWeight(entry, pose[a][bn].rot))
             ELSE acc
        r == IF entry.has_rot
             THEN SetResult(d, bn, ResultKey(PREFIX_RESULT, bn, entry.name),
                            RotationWeight(entry, pose[a][bn].rot))
             ELSE d
        l == IF entry.has_loc
             THEN SetResult(r, bn, ResultKey(PREFIX_RESULT_LOC, bn, entry.name),
                            LocationWeight(entry, pose[a][bn].loc))
             ELSE r
    IN IF entry.has_sca
       THEN SetResult(l, bn, ResultKey(PREFIX_RESULT_SCA, bn, entry.name),
                      ScaleWeight(entry, pose[a][bn].sca))
       ELSE l

Recomputed(a, skip) ==
    {i \in DOMAIN psd_saved_poses[a] :
        Eligible(a, psd_saved_poses[a][i]) /\ psd_saved_poses[a][i].bone_name \notin skip}

\* the loop over the saved entries from i on
RECURSIVE EntryLoop(_, _, _, _)
EntryLoop(a, i, skip, acc) ==
    IF i > Len(psd_saved_poses[a]) THEN acc
    ELSE EntryLoop(a, i + 1, skip,
                   IF i \in Recomputed(a, skip)
                   THEN ComputeEntry(a, psd_saved_poses[a][i], acc)
                   ELSE acc)

\* the indices in set S of a list, in list order, each tagged op
RECURSIVE OpsOf(_, _, _, _)
OpsOf(op, S, i, n) ==
    IF i > n THEN <<>>
    ELSE (IF i \in S THEN <<[op |-> op, i |-> i]>> ELSE <<>>) \o OpsOf(op, S, i + 1, n)

\* what the pass does for armature a when it skips the bones in skip
PassArm(a, skip) ==
    LET start == [mem |-> psd_results_cache[a], writes |-> {}, trigs |-> psd_triggers[a]]
        t == IF psd_saved_poses[a] = <<>> THEN start ELSE ComputeTriggers(a, 1, start)
        e == IF psd_saved_poses[a] = <<>> THEN [mem |-> t.mem, writes |-> t.writes]
             ELSE EntryLoop(a, 1, skip, [mem |-> t.mem, writes |-> t.writes])
    IN [mem |-> e.mem,
        writes |-> e.writes,
        trigs |-> t.trigs,
        trig_computed |-> IF psd_saved_poses[a] = <<>> THEN {}
                          ELSE {i \in DOMAIN psd_triggers[a] :
                                   /\ psd_triggers[a][i].enabled
                                   /\ psd_triggers[a][i].bone_name \in ArmBones
                                   /\ psd_triggers[a][i].target_bone \in ArmBones},
        recomputed |-> IF psd_saved_poses[a] = <<>> THEN {} ELSE Recomputed(a, skip),
        skip_bones |-> IF psd_saved_poses[a] = <<>> THEN {} ELSE skip,
        order |-> (IF psd_saved_poses[a] = <<>> THEN <<>>
                   ELSE OpsOf("trigger", {i \in DOMAIN psd_triggers[a] :
                                            /\ psd_triggers[a][i].enabled
                                            /\ psd_triggers[a][i].bone_name \in ArmBones
                                            /\ psd_triggers[a][i].target_bone \in ArmBones},
                              1, Len(psd_triggers[a]))
                        \o OpsOf("entry", Recomputed(a, skip), 1, Len(psd_saved_poses[a])))
                  \o (IF e.mem = <<>> THEN <<>>
                      ELSE IF psd_output_mode[a] = "STORE_TO_EMPTY"
                      THEN <<[op |-> "flush", i |-> 0]>>
                      ELSE <<[op |-> "drivers", i |-> 0]>>),
        empty |-> IF psd_output_mode[a] = "STORE_TO_EMPTY"
                  THEN FlushMemToRegisteredEmpty(a, e.mem)
                  ELSE empty_props[a],
        tagged |-> psd_output_mode[a] = "STORE_TO_EMPTY" /\ FlushTagged(a, e.mem)]

PassResult(a) == PassArm(a, SkipBones(a))

\* ------------------------------------------------- core.py driver loading
OutputModes == {"STORE_TO_EMPTY", "APPLY_DRIVERS"}

\* bpy.data.objects lists the armatures by name
ArmOrder == <<"arm1", "arm2">>

\* _shape_expressions_cache.get(arm_key) is None: nothing was loaded yet
NotLoaded == [loaded |-> FALSE, data |-> <<>>]
Loaded(data) == [loaded |-> TRUE, data |-> data]

\* the two cache keys of an armature in caches.py: arm_key, str(arm_key) + "_pose"
ShapeCacheKey(a) == ArmPtr(a)
PoseCacheKey(a) == <<"ptr", a, "_pose">>
MathCacheKeys == {ShapeCacheKey(a) : a \in AllArms} \cup {PoseCacheKey(a) : a \in AllArms}

\* the expression texts that compile, all over one variable x; weights are in
\* 1/WeightScale
Expressions == {"x", "1 - x", "2 * x", "x - 1", "1 / x"}

\* compile(expr, ..., "eval") succeeds
Compiles(expr) == expr \in Expressions

\* eval(compiled, safe_globals, local_vars): a name that is not bound and a
\* division by zero raise
Eval(compiled, local_vars) ==
    IF "x" \notin DOMAIN local_vars THEN [raised |-> TRUE, v |-> 0]
    ELSE IF compiled = "1 / x" /\ local_vars["x"] = 0 THEN [raised |-> TRUE, v |-> 0]
    ELSE [raised |-> FALSE,
          v |-> CASE compiled = "x" -> local_vars["x"]
                  [] compiled = "1 - x" -> WeightScale - local_vars["x"]
                  [] compiled = "2 * x" -> 2 * local_vars["x"]
                  [] compiled = "x - 1" -> local_vars["x"] - WeightScale
                  [] compiled = "1 / x" -> (WeightScale * WeightScale) \div local_vars["x"]]

\* json.loads(var["data_path"])[0] succeeds: data_path is the text of a JSON
\* list with a first element
Parses(var) == var.data_path.parses

\* the first elements of the data paths that parse; the files of this model
\* bind one variable per entry, so sorted() leaves the list as collected
DepKeys(variables) ==
    [j \in DOMAIN SelectSeq(variables, Parses) |->
        SelectSeq(variables, Parses)[j].data_path]

\* compiled_data[key] = info on a dict that keeps insertion order
DictPut(d, key, info) ==
    IF \E i \in DOMAIN d : d[i].key = key
    THEN [i \in DOMAIN d |-> IF d[i].key = key THEN [key |-> key, info |-> info] ELSE d[i]]
    ELSE Append(d, [key |-> key, info |-> info])

\* load_shape_drivers: one entry of a document
CompileShapeEntry(post_key, info, compiled_data) ==
    IF info.expression = "" \/ info.variables = <<>> THEN compiled_data
    ELSE IF ~Compiles(info.expression) THEN compiled_data
    ELSE DictPut(compiled_data, post_key,
                 [Mesh_name |-> info.Mesh_name, compiled |-> info.expression,
                  variables |-> info.variables, dep_keys |-> DepKeys(info.variables)])

\* the compile error leaves the loop over the document's entries
RECURSIVE CompileShapeFileAborting(_, _, _)
CompileShapeFileAborting(raw_data, i, compiled_data) ==
    IF i > Len(raw_data) THEN compiled_data
    ELSE LET info == raw_data[i].info
         IN IF info.expression # "" /\ info.variables # <<>> /\ ~Compiles(info.expression)
            THEN compiled_data
            ELSE CompileShapeFileAborting(raw_data, i + 1,
                    CompileShapeEntry(raw_data[i].key, info, compiled_data))

RECURSIVE CompileShapeFile(_, _, _)
CompileShapeFile(raw_data, i, compiled_data) ==
    IF i > Len(raw_data) THEN compiled_data
    ELSE CompileShapeFile(raw_data, i + 1,
            CompileShapeEntry(raw_data[i].key, raw_data[i].info, compiled_data))

\* the loop over psd_shape_driver_files: a file that does not exist or that
\* json.load rejects adds nothing
RECURSIVE LoadShapeFiles(_, _, _)
LoadShapeFiles(files, i, compiled_data) ==
    IF i > Len(files) THEN compiled_data
    ELSE LoadShapeFiles(files, i + 1,
            IF files[i].exists /\ files[i].readable
            THEN CompileShapeFile(files[i].raw_data, 1, compiled_data)
            ELSE compiled_data)

LoadShapeDrivers(a) == LoadShapeFiles(psd_shape_driver_files[a], 1, <<>>)

\* load_pose_drivers: one property of a document; the nested dict of bones,
\* constraints and properties is kept as a list keyed by the three names
CompilePoseEntry(key, prop_info, compiled_data) ==
    IF prop_info.Armature_name = "" \/ prop_info.expression = "" \/ prop_info.variables = <<>>
    THEN compiled_data
    ELSE IF ~Compiles(prop_info.expression) THEN compiled_data
    ELSE DictPut(compiled_data, key,
                 [Armature_name |-> prop_info.Armature_name, compiled |-> prop_info.expression,
                  variables |-> prop_info.variables,
                  dep_keys |-> DepKeys(prop_info.variables)])

RECURSIVE CompilePoseFile(_, _, _)
CompilePoseFile(raw_data, i, compiled_data) ==
    IF i > Len(raw_data) THEN compiled_data
    ELSE CompilePoseFile(raw_data, i + 1,
            CompilePoseEntry(raw_data[i].key, raw_data[i].info, compiled_data))

RECURSIVE LoadPoseFiles(_, _, _)
LoadPoseFiles(files, i, compiled_data) ==
    IF i > Len(files) THEN compiled_data
    ELSE LoadPoseFiles(files, i + 1,
            IF files[i].exists /\ files[i].readable
            THEN CompilePoseFile(files[i].raw_data, 1, compiled_data)
            ELSE compiled_data)

LoadPoseDrivers(a) == LoadPoseFiles(psd_pose_driver_files[a], 1, <<>>)

\* ------------------------------------------ json_shape_driver.py ShapeDriver
\* mem_cache.get(k, 0.0)
Get(mem, k) == IF k \in DOMAIN mem THEN mem[k] ELSE 0

\* tuple(mem_cache.get(k, 0.0) for k in dep_keys); a key that is a JSON list
\* or object cannot be looked up: dict.get raises TypeError
CurrentInput(dep_keys, mem) == [j \in DOMAIN dep_keys |-> Get(mem, dep_keys[j].key)]
Unhashable(dep_keys) == \E j \in DOMAIN dep_keys : ~dep_keys[j].hashable

\* local_vars[var["name"]] = float(mem_cache.get(var_key, 0.0)), a later
\* variable of the same name replacing an earlier one
LocalVars(variables, mem) ==
    [n \in {variables[j].name : j \in DOMAIN variables} |->
        Get(mem, variables[CHOOSE j \in DOMAIN variables :
                              /\ variables[j].name = n
                              /\ \A k \in DOMAIN variables :
                                    variables[k].name = n => k <= j].data_path.key)]

\* w = max(0.0, min(1.0, float(eval(...)))), 0.0 when the evaluation raises
Guarded(r) == IF r.raised THEN 0 ELSE Clamp01(r.v)

\* ShapeDriver.process, the value of one target
ShapeValue(info, mem) ==
    IF \E j \in DOMAIN info.variables : ~Parses(info.variables[j]) THEN 0
    ELSE Guarded(Eval(info.compiled, LocalVars(info.variables, mem)))

\* ShapeDriver.process, first step for one target: st = [math, dep, raised,
\* evaluated]
ShapeStep(post_key, info, mem, st) ==
    IF Unhashable(info.dep_keys) THEN [st EXCEPT !.raised = TRUE]
    ELSE IF post_key \in DOMAIN st.dep /\ st.dep[post_key] = CurrentInput(info.dep_keys, mem)
    THEN st
    ELSE [math |-> Put(st.math, post_key, ShapeValue(info, mem)),
          dep |-> Put(st.dep, post_key, CurrentInput(info.dep_keys, mem)),
          raised |-> FALSE,
          evaluated |-> st.evaluated \cup {post_key}]

RECURSIVE ShapeEvaluate(_, _, _, _)
ShapeEvaluate(expressions, i, mem, st) ==
    IF i > Len(expressions) \/ st.raised THEN st
    ELSE ShapeEvaluate(expressions, i + 1, mem,
                       ShapeStep(expressions[i].key, expressions[i].info, mem, st))

\* mesh_groups: the meshes named by the targets, the targets of one mesh
DrivenMeshes(expressions) ==
    {expressions[i].info.Mesh_name : i \in DOMAIN expressions} \ {""}
MeshGroup(expressions, mesh) ==
    {expressions[i].key : i \in {j \in DOMAIN expressions :
                                    expressions[j].info.Mesh_name = mesh}}

\* ShapeDriver.process, second step: the driver is built anew in every pass,
\* so buf starts as zeros; foreach_set assigns every shape key of the mesh
ShapeApply(expressions, math, keys) ==
    [m \in DOMAIN keys |->
        IF DOMAIN math # {} /\ m \in DrivenMeshes(expressions)
        THEN [k \in DOMAIN keys[m] |->
                IF k \in MeshGroup(expressions, m) THEN Get(math, k) ELSE 0]
        ELSE keys[m]]

\* the shape keys foreach_set assigned
ShapeWritten(expressions, math, keys) ==
    IF DOMAIN math = {} THEN {}
    ELSE UNION {{<<m, k>> : k \in DOMAIN keys[m]} :
                    m \in DrivenMeshes(expressions) \cap DOMAIN keys}

\* -------------------------------------------- json_pose_driver.py PoseDriver
\* cache_key = f"{bone_name}.{constraint_name}.{prop_name}"
PropKey(key) == key[1] \o <<".">> \o key[2] \o <<".">> \o key[3]

\* PoseDriver.process, the value of one target
PoseValue(info, mem) ==
    IF \E j \in DOMAIN info.variables : ~Parses(info.variables[j]) THEN 0
    ELSE Guarded(Eval(info.compiled, LocalVars(info.variables, mem)))

\* a target the loops do not pass over: the armature has the bone and the
\* entry names this armature
PoseTarget(a, key, info) == key[1] \in ArmBones /\ info.Armature_name = a

\* PoseDriver.process, first step for one target
PoseStep(a, key, info, mem, st) ==
    IF ~PoseTarget(a, key, info) THEN st
    ELSE IF Unhashable(info.dep_keys) THEN [st EXCEPT !.raised = TRUE]
    ELSE IF PropKey(key) \in DOMAIN st.dep
            /\ st.dep[PropKey(key)] = CurrentInput(info.dep_keys, mem)
    THEN st
    ELSE [math |-> Put(st.math, PropKey(key), PoseValue(info, mem)),
          dep |-> Put(st.dep, PropKey(key), CurrentInput(info.dep_keys, mem)),
          raised |-> FALSE,
          evaluated |-> st.evaluated \cup {PropKey(key)}]

RECURSIVE PoseEvaluate(_, _, _, _, _)
PoseEvaluate(a, drivers, i, mem, st) ==
    IF i > Len(drivers) \/ st.raised THEN st
    ELSE PoseEvaluate(a, drivers, i + 1, mem,
                      PoseStep(a, drivers[i].key, drivers[i].info, mem, st))

\* the targets of the second step: the constraint exists and has the property
Driven(a, drivers, bone, constraint_name, prop_name) ==
    \E i \in DOMAIN drivers :
        /\ drivers[i].key = <<bone, constraint_name, prop_name>>
        /\ drivers[i].info.Armature_name = a

\* prev is None or abs(prev - w) > 0.001
PoseChanged(prev, w) == Abs(prev - w) > WriteThreshold

\* PoseDriver.process, second step: the constraints of the armature afterwards
PoseApply(a, drivers, math, cons) ==
    [bone \in DOMAIN cons |-> [c \in DOMAIN cons[bone] |-> [p \in DOMAIN cons[bone][c] |->
        IF /\ DOMAIN math # {}
           /\ Driven(a, drivers, bone, c, p)
           /\ PoseChanged(cons[bone][c][p], Get(math, PropKey(<<bone, c, p>>)))
        THEN Get(math, PropKey(<<bone, c, p>>))
        ELSE cons[bone][c][p]]]]

\* the properties setattr assigned
PoseWritten(a, drivers, math, cons) ==
    IF DOMAIN math = {} THEN {}
    ELSE UNION {UNION {{<<bone, c, p>> : p \in {q \in DOMAIN cons[bone][c] :
                          /\ Driven(a, drivers, bone, c, q)
                          /\ PoseChanged(cons[bone][c][q], Get(math, PropKey(<<bone, c, q>>)))}} :
                    c \in DOMAIN cons[bone]} : bone \in DOMAIN cons}

\* ----------------------------------------- core.py the finally block per arm
\* st carries the driver state through the pass: [shape, pose, math, dep,
\* keys, cons] are the values of the six variables the drivers touch; the
\* other fields record what was evaluated and written and whether an
\* exception left the loop
ShapeExpressions(a, st) ==
    IF st.shape[a].loaded THEN st.shape[a].data ELSE LoadShapeDrivers(a)

ShapeAfter(a, st, expressions, ev) ==
    [st EXCEPT !.math[ShapeCacheKey(a)] = ev.math,
               !.dep[ShapeCacheKey(a)] = ev.dep,
               !.raised = ev.raised,
               !.shape_evaluated = @ \cup {<<a, k>> : k \in ev.evaluated},
               !.keys = IF ev.raised THEN @ ELSE ShapeApply(expressions, ev.math, @),
               !.shape_writes = IF ev.raised THEN @
                                ELSE @ \cup ShapeWritten(expressions, ev.math, st.keys)]

\* if expressions: ShapeDriver(expressions).process(arm_key, mem_cache)
ShapeRun(a, mem, st, expressions) ==
    IF expressions = <<>> THEN st
    ELSE ShapeAfter(a, st, expressions,
            ShapeEvaluate(expressions, 1, mem,
                [math |-> st.math[ShapeCacheKey(a)], dep |-> st.dep[ShapeCacheKey(a)],
                 raised |-> FALSE, evaluated |-> {}]))

ShapeDrivers(a, mem, st) ==
    ShapeRun(a, mem, [st EXCEPT !.shape[a] = Loaded(ShapeExpressions(a, st))],
             ShapeExpressions(a, st))

PoseDriversOf(a, st) ==
    IF st.pose[a].loaded THEN st.pose[a].data ELSE LoadPoseDrivers(a)

PoseAfter(a, st, drivers, ev) ==
    [st EXCEPT !.math[PoseCacheKey(a)] = ev.math,
               !.dep[PoseCacheKey(a)] = ev.dep,
               !.raised = ev.raised,
               !.pose_evaluated = @ \cup {<<a, k>> : k \in ev.evaluated},
               !.cons[a] = IF ev.raised THEN @ ELSE PoseApply(a, drivers, ev.math, @),
               !.pose_writes = IF ev.raised THEN @
                               ELSE @ \cup {<<a, t>> : t \in PoseWritten(a, drivers, ev.math, st.cons[a])}]

\* if drivers: PoseDriver(drivers).process(arm, arm_key, mem_cache)
PoseRun(a, mem, st, drivers) ==
    IF drivers = <<>> THEN st
    ELSE PoseAfter(a, st, drivers,
            PoseEvaluate(a, drivers, 1, mem,
                [math |-> st.math[PoseCacheKey(a)], dep |-> st.dep[PoseCacheKey(a)],
                 raised |-> FALSE, evaluated |-> {}]))

\* the shape drivers are outside any try: when they raise, the pose drivers
\* of the armature are not reached
PoseDrivers(a, mem, st) ==
    IF st.raised THEN st
    ELSE PoseRun(a, mem, [st EXCEPT !.pose[a] = Loaded(PoseDriversOf(a, st))],
                 PoseDriversOf(a, st))

\* the elif mode == 'APPLY_DRIVERS' branch, entered when mem_cache has items
ArmDrivers(a, mem, st) ==
    IF DOMAIN mem = {} \/ psd_output_mode[a] # "APPLY_DRIVERS" THEN st
    ELSE PoseDrivers(a, mem, ShapeDrivers(a, mem, st))

DriverStart ==
    [shape |-> shape_expressions_cache, pose |-> pose_drivers_cache,
     math |-> psd_math_cache, dep |-> psd_math_dep_cache,
     keys |-> shape_keys, cons |-> constraints,
     shape_evaluated |-> {}, pose_evaluated |-> {},
     shape_writes |-> {}, pose_writes |-> {},
     processed |-> {}, results |-> <<>>, flushed |-> {}, raised |-> FALSE]

\* one armature of the loop: r is what the try block and the flush did for
\* it, then come the drivers
ArmStep(a, r, st) ==
    ArmDrivers(a, r.mem,
               [st EXCEPT !.processed = @ \cup {a},
                          !.results = Put(@, a, r),
                          !.flushed = IF r.tagged THEN @ \cup {a} ELSE @])

\* for arm in [o for o in bpy.data.objects if o.type == 'ARMATURE']: an
\* exception that leaves the finally block of one armature ends the loop
RECURSIVE PassDriversFrom(_, _)
PassDriversFrom(i, st) ==
    IF i > Len(ArmOrder) \/ st.raised THEN st
    ELSE IF ArmOrder[i] \notin armatures THEN PassDriversFrom(i + 1, st)
    ELSE PassDriversFrom(i + 1, ArmStep(ArmOrder[i], PassResult(ArmOrder[i]), st))

PassDrivers == PassDriversFrom(1, DriverStart)

\* ------------------------------------------------------- core.py rate limiter
\* hz = int(psd_idle_hz or 10), clamped to [1, 240]
IdleHz(hz) ==
    LET h == IF hz = 0 THEN 10 ELSE hz
    IN IF h < 1 THEN 1 ELSE IF h > 240 THEN 240 ELSE h

\* the limiter with the fallback interval of 0.05 s whatever psd_idle_hz says
ThrottledAtFallback ==
    /\ ~is_animation_playing
    /\ since_last_compute * 20 < TicksPerSecond

\* min_interval > 0 and current_time - last_compute_time < min_interval,
\* with min_interval = 1/hz: elapsed * hz < 1 second
Throttled ==
    /\ ~is_animation_playing
    /\ since_last_compute * IdleHz(psd_idle_hz) < TicksPerSecond

\* the body of _psd_compute_all after the rate limiter: every armature in turn
RunPassWith(d) ==
    /\ since_last_pass' = 0
    /\ psd_bone_state_cache' = CacheAfterPass(d.processed, psd_bone_state_cache)
    /\ psd_results_cache' = [a \in AllArms |->
            IF a \in d.processed THEN d.results[a].mem ELSE psd_results_cache[a]]
    /\ psd_triggers' = [a \in AllArms |->
            IF a \in d.processed THEN d.results[a].trigs ELSE psd_triggers[a]]
    /\ empty_props' = [a \in AllArms |->
            IF a \in d.processed THEN d.results[a].empty ELSE empty_props[a]]
    /\ shape_expressions_cache' = d.shape
    /\ pose_drivers_cache' = d.pose
    /\ psd_math_cache' = d.math
    /\ psd_math_dep_cache' = d.dep
    /\ shape_keys' = d.keys
    /\ constraints' = d.cons
    /\ quiet_since_pass' = TRUE
    /\ invalidated' = {}
    /\ pass_samples' = [a \in AllArms |->
            IF a \in d.processed /\ psd_saved_poses[a] # <<>>
            THEN [bn \in BoneFilter(a) |-> MakeSample(a, bn)]
            ELSE pass_samples[a]]
    /\ UNCHANGED <<hostVars, configVars, purged, editVars, psd_output_mode,
                   psd_shape_driver_files, psd_pose_driver_files>>

RunPass == RunPassWith(PassDrivers)

NoPass ==
    UNCHANGED <<since_last_pass, passVars>>

\* _psd_compute_all: drop the call or stamp last_compute_time and run the pass
PsdComputeAll ==
    IF Throttled
    THEN UNCHANGED since_last_compute /\ NoPass
    ELSE since_last_compute' = 0 /\ RunPass

\* what an executed pass d did, as the event of the step
PassEvent(kind, d) ==
    [NoEvent EXCEPT
        !.kind = kind, !.called = TRUE, !.executed = TRUE,
        !.gap = since_last_pass,
        !.quiet = quiet_since_pass,
        !.invalidated = invalidated,
        !.recomputed = UNION {{<<a, i>> : i \in d.results[a].recomputed} : a \in d.processed},
        !.triggers = UNION {{<<a, i>> : i \in d.results[a].trig_computed} : a \in d.processed},
        !.writes = UNION {{[arm |-> a, bone |-> w.bone, key |-> w.key] :
                              w \in d.results[a].writes} : a \in d.processed},
        !.skipped = UNION {{<<a, bn>> : bn \in d.results[a].skip_bones} : a \in d.processed},
        !.previous = pass_samples,
        !.order = [a \in d.processed |-> d.results[a].order],
        !.processed = d.processed,
        !.flushed = d.flushed,
        !.shape_evaluated = d.shape_evaluated,
        !.pose_evaluated = d.pose_evaluated,
        !.shape_writes = d.shape_writes,
        !.pose_writes = d.pose_writes,
        !.raised = d.raised]

CallEvent(kind) ==
    IF Throttled THEN [NoEvent EXCEPT !.kind = kind, !.called = TRUE]
    ELSE PassEvent(kind, PassDrivers)

\* ----------------------------------------------------------- handlers.py
\* _on_play_changed without its FORCE_PLAY branch
OnPlayChangedNoForcePlay(running) ==
    IF ~running THEN [reg |-> psd_timer_registered, arm |-> FALSE]
    ELSE IF psd_mode = "AUTO" /\ is_animation_playing THEN [reg |-> FALSE, arm |-> FALSE]
    ELSE [reg |-> TRUE, arm |-> ~psd_timer_registered]

\* _on_play_changed, run with psd_running = running: the new value of
\* _psd_timer_registered and whether a timer is registered with the host
OnPlayChanged(running) ==
    IF ~running THEN [reg |-> psd_timer_registered, arm |-> FALSE]
    ELSE IF psd_mode = "FORCE_PLAY" THEN [reg |-> FALSE, arm |-> FALSE]
    ELSE IF psd_mode = "FORCE_TIMER"
         THEN [reg |-> TRUE, arm |-> ~psd_timer_registered]
    ELSE IF is_animation_playing THEN [reg |-> FALSE, arm |-> FALSE]
    ELSE [reg |-> TRUE, arm |-> ~psd_timer_registered]

\* bpy.app.timers.register(_psd_timer_func): the host keeps one more callback
Register(arm) ==
    /\ arm => TimerCount < MaxTimers
    /\ timers' = IF arm THEN [timers EXCEPT !.fresh = @ + 1] ELSE timers

\* PSDStartOperator.execute
StartEffect ==
    LET r == IF psd_mode = "AUTO" THEN OnPlayChanged(TRUE)
             ELSE IF psd_mode = "FORCE_TIMER"
                  THEN [reg |-> TRUE, arm |-> ~psd_timer_registered]
             ELSE [reg |-> FALSE, arm |-> FALSE]
    IN /\ depsgraph_update_post' = {"psd_depsgraph_handler"}
       /\ frame_change_post' = {"psd_frame_handler"}
       /\ psd_running' = TRUE
       /\ msgbus_subscribed' = IF psd_mode = "AUTO" THEN TRUE ELSE msgbus_subscribed
       /\ psd_timer_registered' = r.reg
       /\ Register(r.arm)
       /\ event' = [NoEvent EXCEPT !.kind = "start", !.armed = r.arm]

Start ==
    /\ IF ~psd_running
       THEN StartEffect
       ELSE /\ UNCHANGED <<depsgraph_update_post, frame_change_post, psd_running,
                           msgbus_subscribed, psd_timer_registered, timers>>
            /\ event' = [NoEvent EXCEPT !.kind = "start"]
    /\ UNCHANGED <<psd_mode, psd_idle_hz, is_animation_playing, notify_pending,
                   timeVars, passVars>>

\* PSDStopOperator.execute
Stop ==
    /\ depsgraph_update_post' = {}
    /\ frame_change_post' = {}
    /\ psd_running' = FALSE
    /\ psd_timer_registered' = FALSE
    /\ msgbus_subscribed' = FALSE
    /\ notify_pending' = FALSE
    /\ timers' = [fresh |-> 0, old |-> TimerCount]
    /\ event' = [NoEvent EXCEPT !.kind = "stop"]
    /\ UNCHANGED <<psd_mode, psd_idle_hz, is_animation_playing, timeVars, passVars>>

\* _psd_timer_func, called by the host for one registered callback
TimerQuits ==
    \/ ~psd_running
    \/ psd_mode = "FORCE_PLAY"
    \/ (psd_mode = "AUTO" /\ is_animation_playing)

TimerTick(old) ==
    /\ IF old THEN timers.old > 0 ELSE timers.fresh > 0
    /\ IF TimerQuits
       THEN /\ psd_timer_registered' = FALSE
            /\ timers' = IF old THEN [timers EXCEPT !.old = @ - 1]
                         ELSE [timers EXCEPT !.fresh = @ - 1]
            /\ UNCHANGED <<timeVars, passVars>>
            /\ event' = [NoEvent EXCEPT !.kind = "timer", !.old = old]
       ELSE /\ psd_timer_registered' = TRUE
            /\ PsdComputeAll
            /\ UNCHANGED timers
            /\ event' = [CallEvent("timer") EXCEPT !.old = old, !.rescheduled = TRUE]
    /\ UNCHANGED <<psd_running, psd_mode, psd_idle_hz, is_animation_playing,
                   depsgraph_update_post, frame_change_post, notify_pending,
                   msgbus_subscribed>>

\* the host delivers the is_animation_playing notification: _on_play_changed
PlayChangedNotify ==
    /\ notify_pending
    /\ notify_pending' = FALSE
    /\ LET r == OnPlayChanged(psd_running)
       IN /\ psd_timer_registered' = r.reg
          /\ Register(r.arm)
          /\ event' = [NoEvent EXCEPT !.kind = "notify", !.armed = r.arm]
    /\ UNCHANGED <<psd_running, psd_mode, psd_idle_hz, is_animation_playing,
                   depsgraph_update_post, frame_change_post, msgbus_subscribed,
                   timeVars, passVars>>

\* psd_frame_handler, called by the host on a frame change
FrameCalls == psd_mode # "FORCE_TIMER"

FrameChange ==
    /\ "psd_frame_handler" \in frame_change_post
    /\ IF FrameCalls
       THEN PsdComputeAll /\ event' = CallEvent("frame")
       ELSE UNCHANGED <<timeVars, passVars>> /\ event' = [NoEvent EXCEPT !.kind = "frame"]
    /\ UNCHANGED schedVars

\* psd_depsgraph_handler, called by the host after a dependency-graph update
DepsgraphCalls ==
    /\ psd_mode # "FORCE_TIMER"
    /\ ~(~is_animation_playing /\ psd_mode # "FORCE_PLAY")

DepsgraphUpdate ==
    /\ "psd_depsgraph_handler" \in depsgraph_update_post
    /\ IF DepsgraphCalls
       THEN PsdComputeAll /\ event' = CallEvent("depsgraph")
       ELSE UNCHANGED <<timeVars, passVars>>
            /\ event' = [NoEvent EXCEPT !.kind = "depsgraph"]
    /\ UNCHANGED schedVars

\* ------------------------------------------------------------ environment
\* the user starts or stops playback; a subscriber is notified later
TogglePlayback ==
    /\ is_animation_playing' = ~is_animation_playing
    /\ notify_pending' = msgbus_subscribed
    /\ event' = [NoEvent EXCEPT !.kind = "play"]
    /\ UNCHANGED <<psd_running, psd_mode, psd_idle_hz, depsgraph_update_post,
                   frame_change_post, timers, psd_timer_registered, msgbus_subscribed,
                   timeVars, passVars>>

\* the user edits scene.psd_mode in the panel
SetMode(m) ==
    /\ m # psd_mode
    /\ psd_mode' = m
    /\ event' = [NoEvent EXCEPT !.kind = "mode"]
    /\ UNCHANGED <<psd_running, psd_idle_hz, is_animation_playing, depsgraph_update_post,
                   frame_change_post, timers, notify_pending, psd_timer_registered,
                   msgbus_subscribed, timeVars, passVars>>

\* the user edits scene.psd_idle_hz in the panel
SetIdleHz(h) ==
    /\ h # psd_idle_hz
    /\ psd_idle_hz' = h
    /\ event' = [NoEvent EXCEPT !.kind = "hz"]
    /\ UNCHANGED <<psd_running, psd_mode, is_animation_playing, depsgraph_update_post,
                   frame_change_post, timers, notify_pending, psd_timer_registered,
                   msgbus_subscribed, timeVars, passVars>>

\* one tick of wall-clock time passes
Tick ==
    /\ since_last_compute < MaxElapsed \/ since_last_pass < MaxElapsed
    /\ since_last_compute' = Min(since_last_compute + 1, MaxElapsed)
    /\ since_last_pass' = Min(since_last_pass + 1, MaxElapsed)
    /\ event' = NoEvent
    /\ UNCHANGED <<schedVars, passVars>>

\* the animation or the user moves a bone: its local rotation becomes rot
MoveJoint(a, bn, rot) ==
    /\ a \in armatures /\ bn \in ArmBones
    /\ pose[a][bn].rot # rot
    /\ pose' = [pose EXCEPT ![a][bn].rot = rot]
    /\ quiet_since_pass' = FALSE
    /\ event' = [NoEvent EXCEPT !.kind = "move", !.arm = a]
    /\ UNCHANGED <<schedVars, timeVars, driverVars, pass_samples, armatures, configVars, psd_triggers, storeVars,
                   invalidated, purged, editVars>>

\* ----------------------------------------------------------- operators.py
EntryKeys(entry) ==
    {ResultKey(PREFIX_RESULT, entry.bone_name, entry.name),
     ResultKey(PREFIX_RESULT_LOC, entry.bone_name, entry.name),
     ResultKey(PREFIX_RESULT_SCA, entry.bone_name, entry.name)}

DefaultName == <<"d", "e", "f", "a", "u", "l", "t">>

\* props.PSDSavedPose: the item psd_saved_poses.add() creates
DefaultEntry ==
    [name |-> DefaultName, bone_name |-> <<>>,
     record_rot_channel_mode |-> "NONE",
     has_rot |-> FALSE, rest_rot |-> Zero3, pose_rot |-> Zero3,
     cone_enabled |-> FALSE, cone_angle |-> 60, cone_axis |-> "Z",
     has_loc |-> FALSE, rest_loc |-> Zero3, pose_loc |-> Zero3,
     loc_enabled |-> FALSE, loc_radius |-> Resolution \div 10,
     has_sca |-> FALSE, rest_sca |-> One3, pose_sca |-> One3,
     is_direct_channel |-> FALSE, channel_axis |-> "X"]

\* the entry PSDSaveCapturedRotationEntry adds
NewRotationEntry(entry_name, bone_p, rest_rot, pose_rot) ==
    [DefaultEntry EXCEPT
        !.name = IF entry_name # <<>> THEN entry_name ELSE DefaultName,
        !.bone_name = bone_p,
        !.has_rot = TRUE, !.rest_rot = rest_rot, !.pose_rot = pose_rot,
        !.rest_sca = Zero3, !.pose_sca = Zero3]

\* PSDSaveCapturedRotationEntry.execute on armature a, with the captured pose
\* bone and rotations of the scene's temporaries
SaveCapturedRotationEntry(a, entry_name, bone_p, rest_rot, pose_rot) ==
    LET saved == psd_saved_poses[a]
        exists == \E i \in DOMAIN saved :
                      saved[i].bone_name = bone_p /\ saved[i].name = entry_name
        new == NewRotationEntry(entry_name, bone_p, rest_rot, pose_rot)
    IN /\ a \in armatures /\ bone_p # <<>>
       /\ Len(saved) < MaxEntries
       /\ IF exists
          THEN UNCHANGED <<psd_saved_poses, psd_saved_pose_index, arm_db, purged>>
          ELSE /\ psd_saved_poses' = [psd_saved_poses EXCEPT ![a] = Append(saved, new)]
               /\ psd_saved_pose_index' = [psd_saved_pose_index EXCEPT ![a] = Len(saved)]
               /\ arm_db' = [arm_db EXCEPT
                                ![a] = Put(@, ResultKey(PREFIX_RESULT, new.bone_name, new.name), 0)]
               /\ purged' = [purged EXCEPT ![a] = @ \ EntryKeys(new)]
       /\ quiet_since_pass' = FALSE
       /\ event' = [NoEvent EXCEPT !.kind = "save", !.arm = a, !.before = saved,
                                   !.name = entry_name, !.bone = bone_p]
       /\ UNCHANGED <<schedVars, timeVars, driverVars, pass_samples, hostVars, psd_bone_pairs, cache_empty,
                      psd_triggers, storeVars, invalidated, editVars>>

\* the user ticks or clears "has_loc" of the entry selected in the list (the
\* one psd_saved_pose_index points at) in the panel
SetEntryHasLoc(a, b) ==
    LET idx == psd_saved_pose_index[a]
    IN /\ a \in armatures
       /\ idx >= 0 /\ idx < Len(psd_saved_poses[a])
       /\ psd_saved_poses[a][idx + 1].has_loc # b
       /\ psd_saved_poses' = [psd_saved_poses EXCEPT ![a][idx + 1].has_loc = b]
       /\ quiet_since_pass' = FALSE
       /\ event' = [NoEvent EXCEPT !.kind = "edit", !.arm = a]
       /\ UNCHANGED <<schedVars, timeVars, driverVars, pass_samples, hostVars, psd_saved_pose_index, psd_bone_pairs,
                      arm_db, cache_empty, psd_triggers, storeVars, invalidated, purged,
                      editVars>>

RemoveAt(s, i) == SubSeq(s, 1, i - 1) \o SubSeq(s, i + 1, Len(s))

DropKeys(f, ks) == [x \in DOMAIN f \ ks |-> f[x]]

\* PSDRemoveSavedEntry.execute on armature a
RemoveSavedEntry(a) ==
    LET idx == psd_saved_pose_index[a]
        saved == psd_saved_poses[a]
        new_len == Len(saved) - 1
    IN /\ a \in armatures
       /\ IF idx < 0 \/ idx >= Len(saved)
          THEN UNCHANGED <<psd_saved_poses, psd_saved_pose_index, arm_db, purged>>
          ELSE /\ arm_db' = [arm_db EXCEPT ![a] = DropKeys(@, EntryKeys(saved[idx + 1]))]
               /\ psd_saved_poses' = [psd_saved_poses EXCEPT ![a] = RemoveAt(saved, idx + 1)]
               /\ psd_saved_pose_index' = [psd_saved_pose_index EXCEPT ![a] =
                      IF new_len > 0 THEN Min(Max(0, idx - 1), new_len - 1) ELSE -1]
               /\ purged' = [purged EXCEPT ![a] = @ \cup EntryKeys(saved[idx + 1])]
       /\ quiet_since_pass' = FALSE
       /\ event' = [NoEvent EXCEPT !.kind = "remove", !.arm = a]
       /\ UNCHANGED <<schedVars, timeVars, driverVars, pass_samples, hostVars, psd_bone_pairs, cache_empty,
                      psd_triggers, storeVars, invalidated, editVars>>

TriggerName == <<"T", "r", "i", "g", "g", "e", "r">>

\* PSD_OT_AddTrigger.execute with active pose bone pb (<<>> when there is none)
AddTrigger(a, pb) ==
    /\ a \in armatures
    /\ Len(psd_triggers[a]) < MaxTriggers
    /\ psd_triggers' = [psd_triggers EXCEPT ![a] = Append(@,
            [name |-> TriggerName, bone_name |-> pb, target_bone |-> <<>>,
             enabled |-> TRUE, radius |-> Resolution \div 5, falloff |-> "LINEAR",
             last_weight |-> 0])]
    /\ psd_trigger_index' = [psd_trigger_index EXCEPT ![a] = Len(psd_triggers[a])]
    /\ quiet_since_pass' = FALSE
    /\ event' = [NoEvent EXCEPT !.kind = "add_trigger", !.arm = a]
    /\ UNCHANGED <<schedVars, timeVars, driverVars, pass_samples, hostVars, configVars, storeVars, invalidated, purged,
                   psd_bone_pairs_index, config_file>>

\* the user ticks or clears "enabled" of trigger i in the panel
SetTriggerEnabled(a, i, b) ==
    /\ a \in armatures
    /\ i \in DOMAIN psd_triggers[a]
    /\ psd_triggers[a][i].enabled # b
    /\ psd_triggers' = [psd_triggers EXCEPT ![a][i].enabled = b]
    /\ quiet_since_pass' = FALSE
    /\ event' = [NoEvent EXCEPT !.kind = "enable_trigger", !.arm = a]
    /\ UNCHANGED <<schedVars, timeVars, driverVars, pass_samples, hostVars, configVars, storeVars, invalidated, purged,
                   editVars>>

\* core.psd_invalidate_bone_cache(arm_name) with bone_name = None;
\* arm_name = None clears everything
PsdInvalidateBoneCache(cache, arm_name) ==
    IF arm_name = None THEN <<>>
    ELSE IF arm_name \notin DOMAIN cache THEN cache
    ELSE IF cache[arm_name] = <<>> THEN cache
    ELSE Drop(cache, arm_name)

\* PSD_OT_invalidate_cache.execute with context.object = obj
InvalidateCache(obj) ==
    /\ obj \in armatures \cup {NoObject}
    /\ psd_bone_state_cache' =
          PsdInvalidateBoneCache(psd_bone_state_cache,
                                 IF obj \in armatures THEN ArmName(obj) ELSE None)
    /\ invalidated' = invalidated \cup (IF obj \in armatures THEN {obj} ELSE armatures)
    /\ quiet_since_pass' = FALSE
    /\ event' = [NoEvent EXCEPT !.kind = "invalidate", !.arm = obj]
    /\ UNCHANGED <<schedVars, timeVars, driverVars, pass_samples, hostVars, configVars, psd_triggers,
                   psd_results_cache, empty_props, purged, editVars>>

\* PSDSaveCapturedLocationEntry / PSDSaveCapturedScaleEntry / PSDRecordChannelX,
\* Y, Z after their guards: refuse if an entry of the bone is named check_name,
\* else append new, select it and create its result key in the datablock
SaveEntry(a, check_name, new, prefix, kind) ==
    LET saved == psd_saved_poses[a]
        exists == \E i \in DOMAIN saved :
                      saved[i].bone_name = new.bone_name /\ saved[i].name = check_name
    IN /\ a \in armatures
       /\ Len(saved) < MaxEntries
       /\ IF exists
          THEN UNCHANGED <<psd_saved_poses, psd_saved_pose_index, arm_db, purged>>
          ELSE /\ psd_saved_poses' = [psd_saved_poses EXCEPT ![a] = Append(saved, new)]
               /\ psd_saved_pose_index' = [psd_saved_pose_index EXCEPT ![a] = Len(saved)]
               /\ arm_db' = [arm_db EXCEPT
                                ![a] = Put(@, ResultKey(prefix, new.bone_name, new.name), 0)]
               /\ purged' = [purged EXCEPT ![a] = @ \ EntryKeys(new)]
       /\ quiet_since_pass' = FALSE
       /\ event' = [NoEvent EXCEPT !.kind = kind, !.arm = a, !.before = saved,
                                   !.name = check_name, !.bone = new.bone_name]
       /\ UNCHANGED <<schedVars, timeVars, driverVars, pass_samples, hostVars, psd_bone_pairs, cache_empty,
                      psd_triggers, storeVars, invalidated, editVars>>

\* PSDSaveCapturedLocationEntry.execute with the captured bone and locations
SaveCapturedLocationEntry(a, entry_name, bone_p, rest_loc, pose_loc) ==
    /\ bone_p # <<>>
    /\ SaveEntry(a, entry_name,
                 [DefaultEntry EXCEPT
                     !.name = IF entry_name # <<>> THEN entry_name ELSE DefaultName,
                     !.bone_name = bone_p,
                     !.rest_sca = Zero3, !.pose_sca = Zero3,
                     !.has_loc = TRUE, !.rest_loc = rest_loc, !.pose_loc = pose_loc],
                 PREFIX_RESULT_LOC, "save")

\* PSDSaveCapturedScaleEntry.execute with the captured bone and scales
SaveCapturedScaleEntry(a, entry_name, bone_p, rest_sca, pose_sca) ==
    /\ bone_p # <<>>
    /\ SaveEntry(a, entry_name,
                 [DefaultEntry EXCEPT
                     !.name = IF entry_name # <<>> THEN entry_name ELSE DefaultName,
                     !.bone_name = bone_p,
                     !.has_sca = TRUE, !.rest_sca = rest_sca, !.pose_sca = pose_sca],
                 PREFIX_RESULT_SCA, "save")

\* the bones of the armature data, in their order
BoneList == << <<"L">>, <<"R">> >>

\* utils._get_selected_pair_bone; <<>> stands for '<NONE>'
SelectedPairBone(a) ==
    LET idx == psd_bone_pairs_index[a]
    IN IF idx < 0 \/ idx >= Len(psd_bone_pairs[a]) THEN <<>>
       ELSE psd_bone_pairs[a][idx + 1]

RecordName(axis) == <<"r", "e", "c", "o", "r", "d", "_", axis>>

\* PSDRecordChannelX / Y / Z .execute
RecordChannel(a, axis) ==
    /\ SelectedPairBone(a) # <<>>
    /\ SaveEntry(a, RecordName(axis),
                 [DefaultEntry EXCEPT
                     !.name = RecordName(axis),
                     !.bone_name = SelectedPairBone(a),
                     !.is_direct_channel = TRUE, !.channel_axis = axis,
                     !.has_rot = FALSE, !.has_loc = FALSE],
                 PREFIX_RESULT, "record")

\* PSD_OT_AddBonePair.execute: the first bone not yet in the filter, else the
\* first bone
AddBonePair(a) ==
    LET existing == {psd_bone_pairs[a][i] : i \in DOMAIN psd_bone_pairs[a]} \ {<<>>}
        free == {i \in DOMAIN BoneList : BoneList[i] \notin existing}
        chosen == IF free # {} THEN BoneList[CHOOSE i \in free : \A j \in free : i <= j]
                  ELSE BoneList[1]
    IN /\ a \in armatures
       /\ Len(psd_bone_pairs[a]) < MaxPairs
       /\ psd_bone_pairs' = [psd_bone_pairs EXCEPT ![a] = Append(@, chosen)]
       /\ psd_bone_pairs_index' = [psd_bone_pairs_index EXCEPT ![a] = Len(psd_bone_pairs[a])]
       /\ quiet_since_pass' = FALSE
       /\ event' = [NoEvent EXCEPT !.kind = "add_pair", !.arm = a]
       /\ UNCHANGED <<schedVars, timeVars, driverVars, pass_samples, hostVars, psd_saved_poses, psd_saved_pose_index,
                      arm_db, cache_empty, psd_triggers, storeVars, invalidated, purged,
                      psd_trigger_index, config_file>>

\* PSD_OT_SelectTriggerBone.execute with active pose bone pb (<<>>: none)
SelectTriggerBone(a, mode, pb) ==
    LET idx == psd_trigger_index[a]
    IN /\ a \in armatures
       /\ IF idx < 0 \/ idx >= Len(psd_triggers[a]) \/ pb = <<>>
          THEN UNCHANGED psd_triggers
          ELSE psd_triggers' =
                  IF mode = "TRIGGER"
                  THEN [psd_triggers EXCEPT ![a][idx + 1].bone_name = pb]
                  ELSE [psd_triggers EXCEPT ![a][idx + 1].target_bone = pb]
       /\ quiet_since_pass' = FALSE
       /\ event' = [NoEvent EXCEPT !.kind = "select_trigger_bone", !.arm = a]
       /\ UNCHANGED <<schedVars, timeVars, driverVars, pass_samples, hostVars, configVars, storeVars, invalidated,
                      purged, editVars>>

\* the animation or the user moves a bone: its head comes to lie at h
MoveHead(a, bn, h) ==
    /\ a \in armatures /\ bn \in ArmBones
    /\ pose[a][bn].head # h
    /\ pose' = [pose EXCEPT ![a][bn].head = h]
    /\ quiet_since_pass' = FALSE
    /\ event' = [NoEvent EXCEPT !.kind = "move", !.arm = a]
    /\ UNCHANGED <<schedVars, timeVars, driverVars, pass_samples, armatures, configVars, psd_triggers, storeVars,
                   invalidated, purged, editVars>>

\* ------------------------------------------------- configuration export/import
\* A JSON string is a name; JSON null is JsonNull, which no name equals
\* (names are made of one-character strings).
JsonNull == <<"null">>

NoFile == [exists |-> FALSE, bone_pairs |-> <<>>, saved_by_bone |-> <<>>,
           orphan_saved_poses |-> <<>>]

\* the item PSDExportConfig writes for entry e
ExportItem(e) ==
    [name |-> e.name, bone_name |-> e.bone_name,
     rest_rot |-> e.rest_rot, pose_rot |-> e.pose_rot, has_rot |-> e.has_rot,
     rot_channel_mode |-> "NONE",
     cone_enabled |-> e.cone_enabled, cone_angle |-> e.cone_angle, cone_axis |-> e.cone_axis,
     rest_loc |-> e.rest_loc, pose_loc |-> e.pose_loc, has_loc |-> e.has_loc,
     loc_enabled |-> e.loc_enabled, loc_radius |-> e.loc_radius,
     group_name |-> <<>>,
     rest_sca |-> e.rest_sca, pose_sca |-> e.pose_sca, has_sca |-> e.has_sca]

\* data["saved_by_bone"]: the groups <<bone, items>> in the order their bones
\* first occur among the entries from i on
RECURSIVE GroupByBone(_, _, _, _)
GroupByBone(saved, pairs, i, groups) ==
    IF i > Len(saved) THEN groups
    ELSE LET e == saved[i]
             at == {g \in DOMAIN groups : groups[g][1] = e.bone_name}
         IN IF e.bone_name \notin pairs THEN GroupByBone(saved, pairs, i + 1, groups)
            ELSE IF at = {}
            THEN GroupByBone(saved, pairs, i + 1,
                             Append(groups, <<e.bone_name, <<ExportItem(e)>> >>))
            ELSE LET g == CHOOSE x \in at : TRUE
                 IN GroupByBone(saved, pairs, i + 1,
                        [groups EXCEPT ![g] = <<@[1], Append(@[2], ExportItem(e))>>])

RECURSIVE Orphans(_, _, _)
Orphans(saved, pairs, i) ==
    IF i > Len(saved) THEN <<>>
    ELSE IF saved[i].bone_name \in pairs THEN Orphans(saved, pairs, i + 1)
    ELSE <<ExportItem(saved[i])>> \o Orphans(saved, pairs, i + 1)

\* the document PSDExportConfig writes for armature a
ExportData(a) ==
    LET pairs == {psd_bone_pairs[a][i] : i \in DOMAIN psd_bone_pairs[a]}
    IN [exists |-> TRUE,
        bone_pairs |-> psd_bone_pairs[a],
        saved_by_bone |-> GroupByBone(psd_saved_poses[a], pairs, 1, <<>>),
        orphan_saved_poses |-> Orphans(psd_saved_poses[a], pairs, 1)]

\* PSDExportConfig.execute
ExportConfig(a) ==
    /\ a \in armatures
    /\ config_file' = ExportData(a)
    /\ event' = [NoEvent EXCEPT !.kind = "export", !.arm = a]
    /\ UNCHANGED <<schedVars, timeVars, driverVars, pass_samples, hostVars, configVars, psd_triggers, storeVars,
                   ghostVars, psd_bone_pairs_index, psd_trigger_index>>

\* the user puts a document of their own at the path
WriteConfigFile(data) ==
    /\ config_file # data
    /\ config_file' = data
    /\ event' = [NoEvent EXCEPT !.kind = "write_file"]
    /\ UNCHANGED <<schedVars, timeVars, driverVars, pass_samples, hostVars, configVars, psd_triggers, storeVars,
                   ghostVars, psd_bone_pairs_index, psd_trigger_index>>

\* str(x or ""), str(x or "entry")
StrOr(x, default) == IF x = JsonNull \/ x = <<>> THEN default ELSE x

EntryDefaultName == <<"e", "n", "t", "r", "y">>

\* the merge of data["bone_pairs"] from i on: [pairs, existing]
RECURSIVE MergeBonePairs(_, _, _)
MergeBonePairs(file_pairs, i, acc) ==
    IF i > Len(file_pairs) THEN acc
    ELSE LET bn == file_pairs[i]
         IN MergeBonePairs(file_pairs, i + 1,
               IF bn \notin acc.existing
               THEN [pairs |-> Append(acc.pairs, StrOr(bn, <<>>)),
                     existing |-> acc.existing \cup {bn}]
               ELSE acc)

\* entries: the items of every group of saved_by_bone, then the orphans
RECURSIVE GroupItems(_, _)
GroupItems(groups, i) ==
    IF i > Len(groups) THEN <<>> ELSE groups[i][2] \o GroupItems(groups, i + 1)

ImportEntries(data) == GroupItems(data.saved_by_bone, 1) \o data.orphan_saved_poses

\* the entry the import creates from item ent; the float properties clamp to
\* their declared range on assignment
ImportedEntry(ent) ==
    [DefaultEntry EXCEPT
        !.name = StrOr(ent.name, EntryDefaultName),
        !.bone_name = StrOr(ent.bone_name, <<>>),
        !.rest_rot = ent.rest_rot, !.pose_rot = ent.pose_rot, !.has_rot = ent.has_rot,
        !.cone_enabled = ent.cone_enabled,
        !.cone_angle = Max(0, Min(180, ent.cone_angle)),
        !.cone_axis = ent.cone_axis,
        !.rest_loc = ent.rest_loc, !.pose_loc = ent.pose_loc, !.has_loc = ent.has_loc,
        !.loc_enabled = ent.loc_enabled, !.loc_radius = Max(0, ent.loc_radius),
        !.rest_sca = ent.rest_sca, !.pose_sca = ent.pose_sca, !.has_sca = ent.has_sca,
        !.is_direct_channel = IF "is_direct_channel" \in DOMAIN ent
                              THEN ent.is_direct_channel ELSE @,
        !.channel_axis = IF "channel_axis" \in DOMAIN ent THEN ent.channel_axis ELSE @,
        !.record_rot_channel_mode = IF "record_rot_channel_mode" \in DOMAIN ent
                                    THEN ent.record_rot_channel_mode ELSE @]

\* the loop over the entries from i on: [saved, existing]
RECURSIVE MergeEntries(_, _, _)
MergeEntries(entries, i, acc) ==
    IF i > Len(entries) THEN acc
    ELSE LET ent == entries[i]
             key == <<StrOr(ent.bone_name, <<>>), StrOr(ent.name, EntryDefaultName)>>
         IN MergeEntries(entries, i + 1,
               IF key \in acc.existing THEN acc
               ELSE [saved |-> Append(acc.saved, ImportedEntry(ent)),
                     existing |-> acc.existing \cup {key}])

\* a JSON number, where the document should hold an object
JsonNumber == << <<"number">> >>

\* json.load raises: the file is missing or its text is not JSON
LoadFails(data) == ~data.exists \/ "invalid" \in DOMAIN data

\* data.get("saved_by_bone", {}).items() raises on a value that is no object
ImportRaises(data) == data.saved_by_bone = JsonNumber

ImportedPairs(a, data) ==
    MergeBonePairs(data.bone_pairs, 1,
                   [pairs |-> psd_bone_pairs[a],
                    existing |-> {psd_bone_pairs[a][i] : i \in DOMAIN psd_bone_pairs[a]}]).pairs

ImportedSaved(a, data) ==
    IF ImportRaises(data) THEN psd_saved_poses[a] ELSE
    MergeEntries(ImportEntries(data), 1,
                 [saved |-> psd_saved_poses[a],
                  existing |-> {<<psd_saved_poses[a][i].bone_name, psd_saved_poses[a][i].name>> :
                                   i \in DOMAIN psd_saved_poses[a]}]).saved

\* PSDImportConfig.execute on armature a, reading the document at the path
ImportConfig(a) ==
    LET new_pairs == ImportedPairs(a, config_file)
        new_saved == ImportedSaved(a, config_file)
    IN /\ a \in armatures
       /\ Len(new_pairs) <= MaxPairs /\ Len(new_saved) <= MaxEntries
       /\ IF LoadFails(config_file)
          THEN UNCHANGED <<psd_bone_pairs, psd_saved_poses, psd_saved_pose_index, purged>>
          ELSE IF ImportRaises(config_file)
          THEN /\ psd_bone_pairs' = [psd_bone_pairs EXCEPT ![a] = new_pairs]
               /\ UNCHANGED <<psd_saved_poses, psd_saved_pose_index, purged>>
          ELSE /\ psd_bone_pairs' = [psd_bone_pairs EXCEPT ![a] = new_pairs]
               /\ psd_saved_poses' = [psd_saved_poses EXCEPT ![a] = new_saved]
               /\ psd_saved_pose_index' =
                     IF Len(new_saved) > 0
                     THEN [psd_saved_pose_index EXCEPT ![a] = Len(new_saved) - 1]
                     ELSE psd_saved_pose_index
               /\ purged' = [purged EXCEPT ![a] =
                     @ \ UNION {EntryKeys(new_saved[i]) : i \in DOMAIN new_saved}]
       /\ quiet_since_pass' = FALSE
       /\ event' = [NoEvent EXCEPT
                       !.kind = "import", !.arm = a,
                       !.outcome = IF LoadFails(config_file) THEN "CANCELLED"
                                   ELSE IF ImportRaises(config_file) THEN "RAISED"
                                   ELSE "FINISHED",
                       !.before = psd_saved_poses[a],
                       !.pairs_before = psd_bone_pairs[a],
                       !.repeat = (event.kind = "import" /\ event.arm = a)]
       /\ UNCHANGED <<schedVars, timeVars, driverVars, pass_samples, hostVars, arm_db, cache_empty, psd_triggers,
                      storeVars, invalidated, editVars>>

\* ------------------------------------------------- the driver operations
\* reload_shape_drivers: load again and replace the armature's compiled dict
ReloadShapeDrivers(a) ==
    /\ a \in armatures
    /\ shape_expressions_cache' =
           [shape_expressions_cache EXCEPT ![a] = Loaded(LoadShapeDrivers(a))]
    /\ event' = [NoEvent EXCEPT !.kind = "reload_shape", !.arm = a]
    /\ UNCHANGED <<schedVars, timeVars, hostVars, configVars, psd_triggers, storeVars,
                   ghostVars, editVars, psd_output_mode, psd_shape_driver_files,
                   psd_pose_driver_files, pose_drivers_cache, psd_math_cache,
                   psd_math_dep_cache, shape_keys, constraints>>

\* reload_pose_drivers
ReloadPoseDrivers(a) ==
    /\ a \in armatures
    /\ pose_drivers_cache' =
           [pose_drivers_cache EXCEPT ![a] = Loaded(LoadPoseDrivers(a))]
    /\ event' = [NoEvent EXCEPT !.kind = "reload_pose", !.arm = a]
    /\ UNCHANGED <<schedVars, timeVars, hostVars, configVars, psd_triggers, storeVars,
                   ghostVars, editVars, psd_output_mode, psd_shape_driver_files,
                   psd_pose_driver_files, shape_expressions_cache, psd_math_cache,
                   psd_math_dep_cache, shape_keys, constraints>>

\* the user picks the output mode of an armature
SetOutputMode(a, mode) ==
    /\ a \in armatures
    /\ psd_output_mode[a] # mode
    /\ psd_output_mode' = [psd_output_mode EXCEPT ![a] = mode]
    /\ event' = [NoEvent EXCEPT !.kind = "output_mode", !.arm = a]
    /\ UNCHANGED <<schedVars, timeVars, hostVars, configVars, psd_triggers, storeVars,
                   ghostVars, editVars, psd_shape_driver_files, psd_pose_driver_files,
                   shape_expressions_cache, pose_drivers_cache, psd_math_cache,
                   psd_math_dep_cache, shape_keys, constraints>>

\* the user edits the shape driver documents of an armature on disk
WriteShapeDriverFiles(a, files) ==
    /\ a \in armatures
    /\ psd_shape_driver_files[a] # files
    /\ psd_shape_driver_files' = [psd_shape_driver_files EXCEPT ![a] = files]
    /\ event' = [NoEvent EXCEPT !.kind = "shape_files", !.arm = a]
    /\ UNCHANGED <<schedVars, timeVars, hostVars, configVars, psd_triggers, storeVars,
                   ghostVars, editVars, psd_output_mode, psd_pose_driver_files,
                   shape_expressions_cache, pose_drivers_cache, psd_math_cache,
                   psd_math_dep_cache, shape_keys, constraints>>

\* the user edits the pose driver documents of an armature on disk
WritePoseDriverFiles(a, files) ==
    /\ a \in armatures
    /\ psd_pose_driver_files[a] # files
    /\ psd_pose_driver_files' = [psd_pose_driver_files EXCEPT ![a] = files]
    /\ event' = [NoEvent EXCEPT !.kind = "pose_files", !.arm = a]
    /\ UNCHANGED <<schedVars, timeVars, hostVars, configVars, psd_triggers, storeVars,
                   ghostVars, editVars, psd_output_mode, psd_shape_driver_files,
                   shape_expressions_cache, pose_drivers_cache, psd_math_cache,
                   psd_math_dep_cache, shape_keys, constraints>>

\* the user adds an armature object to the scene
AddArmature(a) ==
    /\ a \notin armatures
    /\ armatures' = armatures \cup {a}
    /\ event' = [NoEvent EXCEPT !.kind = "add_armature", !.arm = a]
    /\ UNCHANGED <<schedVars, timeVars, driverVars, pass_samples, pose, configVars, psd_triggers, storeVars,
                   ghostVars, editVars>>

\* psd_register_cache_empty: an Empty is registered for the armature, a new
\* one without properties or the one that was registered before
RegisterCacheEmpty(a, fresh) ==
    /\ a \in armatures
    /\ ~cache_empty[a]
    /\ cache_empty' = [cache_empty EXCEPT ![a] = TRUE]
    /\ empty_props' = [empty_props EXCEPT ![a] = IF fresh THEN <<>> ELSE @]
    /\ event' = [NoEvent EXCEPT !.kind = "register_empty", !.arm = a]
    /\ UNCHANGED <<schedVars, timeVars, driverVars, pass_samples, hostVars, psd_saved_poses,
                   psd_saved_pose_index, psd_bone_pairs, arm_db, psd_triggers,
                   psd_bone_state_cache, psd_results_cache, ghostVars, editVars>>

\* psd_unregister_cache_empty, or the user deletes the registered Empty
UnregisterCacheEmpty(a) ==
    /\ a \in armatures
    /\ cache_empty[a]
    /\ cache_empty' = [cache_empty EXCEPT ![a] = FALSE]
    /\ event' = [NoEvent EXCEPT !.kind = "unregister_empty", !.arm = a]
    /\ UNCHANGED <<schedVars, timeVars, driverVars, pass_samples, hostVars, psd_saved_poses,
                   psd_saved_pose_index, psd_bone_pairs, arm_db, psd_triggers,
                   storeVars, ghostVars, editVars>>

\* ------------------------------------------------------------ specification
\* no saved data yet: every armature property at its default, empty caches
\* the driver side right after registration: the default output mode, no
\* driver files, nothing loaded or computed; the scene has one mesh with two
\* shape keys and a constraint on bone L of each armature
InitDriverVars ==
    /\ psd_output_mode = [a \in AllArms |-> "STORE_TO_EMPTY"]
    /\ psd_shape_driver_files = [a \in AllArms |-> <<>>]
    /\ psd_pose_driver_files = [a \in AllArms |-> <<>>]
    /\ shape_expressions_cache = [a \in AllArms |-> NotLoaded]
    /\ pose_drivers_cache = [a \in AllArms |-> NotLoaded]
    /\ psd_math_cache = [k \in MathCacheKeys |-> <<>>]
    /\ psd_math_dep_cache = [k \in MathCacheKeys |-> <<>>]
    /\ shape_keys = [m \in {"Body"} |-> [k \in {"sk1", "sk2"} |-> 0]]
    /\ constraints = [a \in AllArms |-> [bn \in {<<"L">>} |->
                         [c \in {<<"c">>} |-> [p \in {<<"i">>} |-> WeightScale]]]]

InitPassVars ==
    /\ InitDriverVars
    /\ armatures = {"arm1"}
    /\ pose = [a \in AllArms |-> [bn \in ArmBones |->
                  [rot |-> Zero3, loc |-> Zero3, sca |-> One3, head |-> 0]]]
    /\ psd_saved_poses = [a \in AllArms |-> <<>>]
    /\ psd_saved_pose_index = [a \in AllArms |-> -1]
    /\ psd_bone_pairs = [a \in AllArms |-> <<>>]
    /\ psd_triggers = [a \in AllArms |-> <<>>]
    /\ psd_bone_pairs_index = [a \in AllArms |-> 0]
    /\ psd_trigger_index = [a \in AllArms |-> -1]
    /\ config_file = NoFile
    /\ arm_db = [a \in AllArms |-> <<>>]
    /\ empty_props = [a \in AllArms |-> <<>>]
    /\ psd_bone_state_cache = <<>>
    /\ psd_results_cache = [a \in AllArms |-> <<>>]
    /\ quiet_since_pass = FALSE
    /\ invalidated = {}
    /\ purged = [a \in AllArms |-> {}]
    /\ pass_samples = [a \in AllArms |-> <<>>]

\* register(): props at their defaults, register_handlers() has appended both
\* hooks, init_globals() has set last_compute_time = 0.0 (the epoch)
Init ==
    /\ psd_running = FALSE
    /\ psd_mode = "AUTO"
    /\ psd_idle_hz \in HzValues
    /\ is_animation_playing = FALSE
    /\ depsgraph_update_post = {"psd_depsgraph_handler"}
    /\ frame_change_post = {"psd_frame_handler"}
    /\ timers = [fresh |-> 0, old |-> 0]
    /\ notify_pending = FALSE
    /\ psd_timer_registered = FALSE
    /\ msgbus_subscribed = FALSE
    /\ since_last_compute = MaxElapsed
    /\ since_last_pass = MaxElapsed
    /\ cache_empty = [a \in AllArms |-> FALSE]
    /\ InitPassVars
    /\ event = NoEvent

Next ==
    \/ Start
    \/ Stop
    \/ \E old \in BOOLEAN : TimerTick(old)
    \/ PlayChangedNotify
    \/ FrameChange
    \/ DepsgraphUpdate
    \/ TogglePlayback
    \/ \E m \in Modes : SetMode(m)
    \/ \E h \in HzValues : SetIdleHz(h)
    \/ Tick

Spec == Init /\ [][Next]_vars

\* the timer and the notification are the host's to run: it runs them
FairSpec ==
    /\ Spec
    /\ WF_vars(PlayChangedNotify)
    /\ WF_vars(TimerTick(TRUE))
    /\ WF_vars(TimerTick(FALSE))

\* the compute pass and the editing operators: the scheduler was started in
\* FORCE_PLAY during playback, so that every frame change executes a pass; an
\* Empty is registered for each armature
InitPass ==
    /\ psd_running = TRUE
    /\ psd_mode = "FORCE_PLAY"
    /\ psd_idle_hz = 10
    /\ is_animation_playing = TRUE
    /\ depsgraph_update_post = {"psd_depsgraph_handler"}
    /\ frame_change_post = {"psd_frame_handler"}
    /\ timers = [fresh |-> 0, old |-> 0]
    /\ notify_pending = FALSE
    /\ psd_timer_registered = FALSE
    /\ msgbus_subscribed = FALSE
    /\ since_last_compute = MaxElapsed
    /\ since_last_pass = MaxElapsed
    /\ cache_empty = [a \in AllArms |-> TRUE]
    /\ InitPassVars
    /\ event = NoEvent

\* inputs of the pass specification
RotInputs == {Zero3, <<1000, 0, 0>>}
EntryNameInputs == {<<"p">>, <<"q">>}
MovedBones == {<<"L">>}
PoseRotInputs == {<<1000, 0, 0>>}

NextPass ==
    \/ FrameChange
    \/ \E a \in armatures, bn \in MovedBones, rot \in RotInputs : MoveJoint(a, bn, rot)
    \/ \E a \in armatures, n \in EntryNameInputs, bn \in MovedBones, p \in PoseRotInputs :
          SaveCapturedRotationEntry(a, n, bn, Zero3, p)
    \/ \E a \in armatures, b \in BOOLEAN : SetEntryHasLoc(a, b)
    \/ \E a \in armatures : RemoveSavedEntry(a)
    \/ \E a \in armatures : AddTrigger(a, <<"L">>)
    \/ \E a \in armatures, i \in 1..MaxTriggers, b \in BOOLEAN : SetTriggerEnabled(a, i, b)
    \/ \E obj \in armatures \cup {NoObject} : InvalidateCache(obj)

SpecPass == InitPass /\ [][NextPass]_vars

\* the saved entries and the configuration file: two armatures, the second
\* one with nothing saved; the scheduler is stopped
InitIdle ==
    /\ psd_running = FALSE
    /\ psd_mode = "AUTO"
    /\ psd_idle_hz = 10
    /\ is_animation_playing = FALSE
    /\ depsgraph_update_post = {"psd_depsgraph_handler"}
    /\ frame_change_post = {"psd_frame_handler"}
    /\ timers = [fresh |-> 0, old |-> 0]
    /\ notify_pending = FALSE
    /\ psd_timer_registered = FALSE
    /\ msgbus_subscribed = FALSE
    /\ since_last_compute = MaxElapsed
    /\ since_last_pass = MaxElapsed
    /\ cache_empty = [a \in AllArms |-> FALSE]
    /\ InitDriverVars
    /\ armatures = AllArms
    /\ pose = [a \in AllArms |-> [bn \in ArmBones |->
                  [rot |-> Zero3, loc |-> Zero3, sca |-> One3, head |-> 0]]]
    /\ psd_saved_poses = [a \in AllArms |-> <<>>]
    /\ psd_saved_pose_index = [a \in AllArms |-> -1]
    /\ psd_bone_pairs = [a \in AllArms |-> <<>>]
    /\ psd_triggers = [a \in AllArms |-> <<>>]
    /\ psd_bone_pairs_index = [a \in AllArms |-> 0]
    /\ psd_trigger_index = [a \in AllArms |-> -1]
    /\ config_file = NoFile
    /\ arm_db = [a \in AllArms |-> <<>>]
    /\ empty_props = [a \in AllArms |-> <<>>]
    /\ psd_bone_state_cache = <<>>
    /\ psd_results_cache = [a \in AllArms |-> <<>>]
    /\ quiet_since_pass = FALSE
    /\ invalidated = {}
    /\ purged = [a \in AllArms |-> {}]
    /\ pass_samples = [a \in AllArms |-> <<>>]

InitRoundTrip ==
    /\ InitIdle
    /\ event = NoEvent

\* inputs of the configuration specification: the names typed into the save
\* dialogs (the empty one among them) and the documents a user provides
ConfigNameInputs == {<<>>, <<"p">>}
AxisInputs == {"X", "Y"}

FileItem(bone, name) == ExportItem([DefaultEntry EXCEPT !.bone_name = bone, !.name = name])

FileInputs ==
    {[exists |-> TRUE, bone_pairs |-> <<JsonNull>>, saved_by_bone |-> <<>>,
      orphan_saved_poses |-> <<FileItem(<<"L">>, JsonNull)>>],
     [exists |-> TRUE, bone_pairs |-> << <<"R">>, <<"R">> >>,
      saved_by_bone |-> << <<<<"R">>, <<FileItem(<<"R">>, <<"p">>)>> >> >>,
      orphan_saved_poses |-> <<FileItem(<<"R">>, <<"p">>)>>]}

NextConfig ==
    \/ AddBonePair("arm1")
    \/ \E n \in ConfigNameInputs, p \in PoseRotInputs :
          SaveCapturedRotationEntry("arm1", n, <<"L">>, Zero3, p)
    \/ \E n \in ConfigNameInputs :
          SaveCapturedLocationEntry("arm1", n, <<"L">>, Zero3, <<1000, 0, 0>>)
    \/ \E n \in ConfigNameInputs :
          SaveCapturedScaleEntry("arm1", n, <<"L">>, One3, <<2 * Resolution, Resolution, Resolution>>)
    \/ \E axis \in AxisInputs : RecordChannel("arm1", axis)
    \/ RemoveSavedEntry("arm1")
    \/ \E d \in FileInputs : WriteConfigFile(d)
    \/ ImportConfig("arm1")

\* one armature right after registration, its entries edited by the save,
\* record and remove operators and by imports of the user's documents
SpecConfig == InitRoundTrip /\ [][NextConfig]_vars

\* the first armature is edited and exported, the second one imports
NextRoundTrip ==
    \/ AddBonePair("arm1")
    \/ \E p \in PoseRotInputs : SaveCapturedRotationEntry("arm1", <<"p">>, <<"L">>, Zero3, p)
    \/ \E axis \in AxisInputs : RecordChannel("arm1", axis)
    \/ ExportConfig("arm1")
    \/ ImportConfig("arm2")
    \/ RemoveSavedEntry("arm2")

SpecRoundTrip == InitRoundTrip /\ [][NextRoundTrip]_vars

\* ------------------------------------------------- the weight policies alone
\* a float that may be NaN: the head distance of compute_triggers when a head
\* position is NaN
Float(v) == [nan |-> FALSE, v |-> v]
NaN == [nan |-> TRUE, v |-> 0]

\* compute_triggers, from the distance to the value handed to
\* psd_set_result_cache_only, which stores it when the key is new. Python's
\* min and max return their first argument unless a later one compares
\* smaller or greater, and every comparison with NaN is false: for a NaN
\* distance min(max(nan, 0.0), 1.0) is NaN and min(1.0, nan) is 1.0
StoredTriggerWeight(trig, d) ==
    IF d.nan
    THEN (IF trig.falloff = "SMOOTH" THEN NaN ELSE Float(WeightScale))
    ELSE Float(TriggerWeight(trig, d.v))

\* the key under which each policy stores its result
KeyKinds == {"rot", "direct", "loc", "sca", "trigger"}
KeyOf(kind, bn, en) ==
    CASE kind = "rot" -> ResultKey(PREFIX_RESULT, bn, en)
      [] kind = "direct" -> ResultKey(PREFIX_RESULT, bn, en)
      [] kind = "loc" -> ResultKey(PREFIX_RESULT_LOC, bn, en)
      [] kind = "sca" -> ResultKey(PREFIX_RESULT_SCA, bn, en)
      [] kind = "trigger" -> TriggerKey([target_bone |-> bn, name |-> en])

V3Add(a, b) == <<a[1] + b[1], a[2] + b[2], a[3] + b[3]>>
V3Half(k, a) == <<(k * a[1]) \div 2, (k * a[2]) \div 2, (k * a[3]) \div 2>>

\* joint and entry names: blank against underscore, a shifted boundary, and
\* an entry name that ends like a trigger key
JointNameInputs == {<<"a">>, <<"a", " ", "b">>, <<"a", "_", "b">>}
KeyNameInputs == {<<"c">>, <<"b", "_", "c">>, <<"c", "_", "w">>}

\* rest values, pose - rest, and the current sample as rest + k/2 (pose - rest)
\* + an offset; 100 units is 0.0002, below the rotation threshold
RestInputs == {Zero3, <<200, 0, 0>>}
DirInputs == {Zero3, <<100, 0, 0>>, <<600, 0, 0>>, <<0, 600, -600>>}
StepInputs == -1 .. 5
OffsetInputs == {Zero3, <<0, 0, 1>>, <<0, 300, 0>>, <<0, 0, 600>>}

ProjectionCases ==
    {[entry |-> [DefaultEntry EXCEPT !.rest_rot = rest, !.pose_rot = V3Add(rest, dir),
                                     !.rest_loc = rest, !.pose_loc = V3Add(rest, dir),
                                     !.rest_sca = rest, !.pose_sca = V3Add(rest, dir)],
      cur |-> V3Add(V3Add(rest, V3Half(k, dir)), off)] :
        rest \in RestInputs, dir \in DirInputs, k \in StepInputs, off \in OffsetInputs}

\* rotations in whole degrees for the cone branch
DegreeInputs ==
    {<<0, 0, z * Resolution>> : z \in {0, 30, 60, 90, 120, 180}}
        \cup {<<0, 90 * Resolution, 0>>, <<90 * Resolution, 0, 0>>}
ConeCases ==
    {[entry |-> [DefaultEntry EXCEPT !.cone_enabled = TRUE, !.cone_axis = axis,
                                     !.cone_angle = angle, !.pose_rot = pose_rot],
      cur |-> cur] :
        axis \in {"X", "Y", "Z"}, angle \in {0, 60, 180},
        pose_rot \in {<<0, 0, 90 * Resolution>>, <<0, 90 * Resolution, 0>>},
        cur \in DegreeInputs}

LocRadiusInputs == {0, 600}
DistanceInputs == {0, 1} \cup {k * (Resolution \div 20) : k \in 1 .. 6}
TrigRadiusInputs == {0, Resolution \div 10, Resolution \div 5}

\* the inputs of the policies: an entry and a sample, a trigger and two head
\* distances, two (kind, joint name, entry name) triples
MathInputs ==
    {[op |-> "rotation", entry |-> c.entry, cur |-> c.cur] :
        c \in ProjectionCases \cup ConeCases}
    \cup {[op |-> "location",
           entry |-> [c.entry EXCEPT !.loc_enabled = en, !.loc_radius = r],
           cur |-> c.cur] :
            c \in ProjectionCases, en \in BOOLEAN, r \in LocRadiusInputs}
    \cup {[op |-> "scale", entry |-> c.entry, cur |-> c.cur] : c \in ProjectionCases}
    \cup {[op |-> "trigger", trig |-> [falloff |-> f, radius |-> r], d1 |-> d1, d2 |-> d2] :
            f \in {"LINEAR", "SMOOTH"}, r \in TrigRadiusInputs,
            d1 \in {Float(d) : d \in DistanceInputs} \cup {NaN},
            d2 \in {Float(d) : d \in DistanceInputs} \cup {NaN}}
    \cup {[op |-> "keys", t1 |-> t1, t2 |-> t2] :
            t1 \in KeyKinds \X JointNameInputs \X KeyNameInputs,
            t2 \in KeyKinds \X JointNameInputs \X KeyNameInputs}

InitMath ==
    /\ InitIdle
    /\ event \in {[NoEvent EXCEPT !.kind = "input", !.input = c] : c \in MathInputs}

Pending(op) == event.kind = "input" /\ event.input.op = op

\* compute_rotation_weight on one entry and one sample
ApplyRotation ==
    /\ Pending("rotation")
    /\ event' = [event EXCEPT !.kind = "rotation",
                              !.result = RotationWeight(event.input.entry, event.input.cur)]
    /\ UNCHANGED <<schedVars, timeVars, passVars>>

\* compute_location_weight on one entry and one sample
ApplyLocation ==
    /\ Pending("location")
    /\ event' = [event EXCEPT !.kind = "location",
                              !.result = LocationWeight(event.input.entry, event.input.cur)]
    /\ UNCHANGED <<schedVars, timeVars, passVars>>

\* compute_scale_weight on one entry and one sample
ApplyScale ==
    /\ Pending("scale")
    /\ event' = [event EXCEPT !.kind = "scale",
                              !.result = ScaleWeight(event.input.entry, event.input.cur)]
    /\ UNCHANGED <<schedVars, timeVars, passVars>>

\* compute_triggers on one trigger at two head distances
ApplyTrigger ==
    /\ Pending("trigger")
    /\ event' = [event EXCEPT !.kind = "trigger",
                              !.result = <<StoredTriggerWeight(event.input.trig, event.input.d1),
                                           StoredTriggerWeight(event.input.trig, event.input.d2)>>]
    /\ UNCHANGED <<schedVars, timeVars, passVars>>

\* the keys of two results
ComposeKeys ==
    /\ Pending("keys")
    /\ event' = [event EXCEPT !.kind = "keys",
                              !.result = <<KeyOf(event.input.t1[1], event.input.t1[2],
                                                 event.input.t1[3]),
                                           KeyOf(event.input.t2[1], event.input.t2[2],
                                                 event.input.t2[3])>>]
    /\ UNCHANGED <<schedVars, timeVars, passVars>>

NextMath ==
    \/ ApplyRotation
    \/ ApplyLocation
    \/ ApplyScale
    \/ ApplyTrigger
    \/ ComposeKeys

SpecMath == InitMath /\ [][NextMath]_vars

\* ------------------------------------------------- triggers in the pass
\* the pass with the trigger operators on one armature: the scheduler runs in
\* FORCE_PLAY, every frame change executes a pass
HeadInputs == {0, Resolution \div 10}

NextTrig ==
    \/ FrameChange
    \/ SaveCapturedRotationEntry("arm1", <<"p">>, <<"L">>, Zero3, <<1000, 0, 0>>)
    \/ RemoveSavedEntry("arm1")
    \/ AddBonePair("arm1")
    \/ AddTrigger("arm1", <<"L">>)
    \/ SelectTriggerBone("arm1", "TARGET", <<"R">>)
    \/ \E b \in BOOLEAN : SetTriggerEnabled("arm1", 1, b)
    \/ \E h \in HeadInputs : MoveHead("arm1", <<"R">>, h)

SpecTrig == InitPass /\ [][NextTrig]_vars

\* ------------------------------------------------- the drivers in the pass
\* one armature with one rotation entry on bone L; the scheduler runs in
\* FORCE_PLAY, every frame change executes a pass
StoredKey == ResultKey(PREFIX_RESULT, <<"L">>, <<"p">>)
AbsentKey == ResultKey(PREFIX_RESULT, <<"R">>, <<"q">>)

Var(key) == [name |-> "x",
             data_path |-> [parses |-> TRUE, hashable |-> TRUE, key |-> key]]

ShapeDoc(post_key, expr, key) ==
    [exists |-> TRUE, readable |-> TRUE,
     raw_data |-> <<[key |-> post_key,
                     info |-> [Mesh_name |-> "Body", expression |-> expr,
                               variables |-> <<Var(key)>>]]>>]

PoseDoc(expr, key) ==
    [exists |-> TRUE, readable |-> TRUE,
     raw_data |-> <<[key |-> << <<"L">>, <<"c">>, <<"i">> >>,
                     info |-> [Armature_name |-> "arm1", expression |-> expr,
                               variables |-> <<Var(key)>>]]>>]

ShapeFileInputs ==
    {<<ShapeDoc("sk1", "x", StoredKey)>>, <<ShapeDoc("sk1", "1 - x", StoredKey)>>}

PoseFileInputs ==
    {<<PoseDoc("x - 1", StoredKey)>>, <<PoseDoc("1 - x", AbsentKey)>>}

NextDrivers ==
    \/ FrameChange
    \/ \E rot \in RotInputs : MoveJoint("arm1", <<"L">>, rot)
    \/ SaveCapturedRotationEntry("arm1", <<"p">>, <<"L">>, Zero3, <<1000, 0, 0>>)
    \/ \E mode \in OutputModes : SetOutputMode("arm1", mode)
    \/ \E files \in ShapeFileInputs : WriteShapeDriverFiles("arm1", files)
    \/ \E files \in PoseFileInputs : WritePoseDriverFiles("arm1", files)
    \/ ReloadShapeDrivers("arm1")
    \/ ReloadPoseDrivers("arm1")

SpecDrivers == InitPass /\ [][NextDrivers]_vars

\* ------------------------------------------------ two armatures in the pass
\* a variable whose data path is the text of a list of lists: its first
\* element is a list, which no dict can look up
ListVar == [name |-> "x",
            data_path |-> [parses |-> TRUE, hashable |-> FALSE, key |-> <<>>]]

OwnerFileInputs ==
    {<<ShapeDoc("sk1", "x", StoredKey)>>,
     <<[ShapeDoc("sk1", "x", StoredKey) EXCEPT !.raw_data[1].info.variables = <<ListVar>>]>>}

NextOwners ==
    \/ FrameChange
    \/ AddArmature("arm2")
    \/ \E a \in armatures :
          SaveCapturedRotationEntry(a, <<"p">>, <<"L">>, Zero3, <<1000, 0, 0>>)
    \/ \E a \in armatures, rot \in RotInputs : MoveJoint(a, <<"L">>, rot)
    \/ \E mode \in OutputModes : SetOutputMode("arm1", mode)
    \/ \E files \in OwnerFileInputs : WriteShapeDriverFiles("arm1", files)

SpecOwners == InitPass /\ [][NextOwners]_vars

\* ------------------------------------------------- the flush in the pass
\* one armature whose Empty comes and goes; the scheduler runs in FORCE_PLAY
\* rest, the authored pose and a rotation one thousandth of the way to it
FlushRotInputs == RotInputs \cup {<<1, 0, 0>>}

NextFlush ==
    \/ FrameChange
    \/ \E n \in EntryNameInputs :
          SaveCapturedRotationEntry("arm1", n, <<"L">>, Zero3, <<1000, 0, 0>>)
    \/ \E rot \in FlushRotInputs : MoveJoint("arm1", <<"L">>, rot)
    \/ \E fresh \in BOOLEAN : RegisterCacheEmpty("arm1", fresh)
    \/ UnregisterCacheEmpty("arm1")
    \/ \E mode \in OutputModes : SetOutputMode("arm1", mode)

SpecFlush == InitPass /\ [][NextFlush]_vars

\* ------------------------------------------------- loading driver documents
\* documents of two entries of which the first does not compile, next to a
\* second document; "x +" is no expression
BadShapeDoc ==
    [ShapeDoc("sk1", "x +", StoredKey) EXCEPT
        !.raw_data = @ \o ShapeDoc("sk2", "x", StoredKey).raw_data]

BadPoseDoc ==
    [PoseDoc("x +", StoredKey) EXCEPT
        !.raw_data = @ \o <<[key |-> << <<"L">>, <<"c">>, <<"j">> >>,
                             info |-> PoseDoc("x", StoredKey).raw_data[1].info]>>]

LoadShapeInputs ==
    {<<BadShapeDoc, ShapeDoc("sk1", "1 - x", StoredKey)>>,
     <<ShapeDoc("sk1", "x", StoredKey), BadShapeDoc>>}

LoadPoseInputs ==
    {<<BadPoseDoc, PoseDoc("1 - x", StoredKey)>>, <<PoseDoc("x", StoredKey)>>}

NextLoad ==
    \/ FrameChange
    \/ SaveCapturedRotationEntry("arm1", <<"p">>, <<"L">>, Zero3, <<1000, 0, 0>>)
    \/ \E mode \in OutputModes : SetOutputMode("arm1", mode)
    \/ \E files \in LoadShapeInputs : WriteShapeDriverFiles("arm1", files)
    \/ \E files \in LoadPoseInputs : WritePoseDriverFiles("arm1", files)
    \/ ReloadShapeDrivers("arm1")
    \/ ReloadPoseDrivers("arm1")

\* the owner's driver documents are edited and loaded, by the reload
\* operators and by the first pass that applies drivers
SpecLoad == InitPass /\ [][NextLoad]_vars

\* ------------------------------------------------- the joint filter
\* one armature whose filter list grows by the add operator and by imports
\* (a null in bone_pairs becomes a row with a blank name)
NextFilter ==
    \/ FrameChange
    \/ \E bn \in ArmBones, rot \in RotInputs : MoveJoint("arm1", bn, rot)
    \/ \E bn \in ArmBones :
          SaveCapturedRotationEntry("arm1", <<"p">>, bn, Zero3, <<1000, 0, 0>>)
    \/ AddBonePair("arm1")
    \/ \E d \in FileInputs : WriteConfigFile(d)
    \/ ImportConfig("arm1")

SpecFilter == InitPass /\ [][NextFilter]_vars

\* ------------------------------------------------- PSD_core.py, the one-file variant
\* w_i = (cur - rest) / denom through the triangular envelope, denom of
\* either sign
SignedTriangular(num, denom) ==
    IF denom > 0 THEN TriangularWeight(num, denom) ELSE TriangularWeight(-num, -denom)

\* the axes of the per-axis location weight that count: rest and pose differ,
\* or the joint is at rest on the axis
LegacyAxes(entry, cur_loc) ==
    {i \in 1..3 : entry.pose_loc[i] # entry.rest_loc[i] \/ cur_loc[i] = entry.rest_loc[i]}

LegacyAxisWeight(entry, cur_loc, i) ==
    IF i \notin LegacyAxes(entry, cur_loc) \/ entry.pose_loc[i] = entry.rest_loc[i]
    THEN WeightScale
    ELSE Clamp01(SignedTriangular(cur_loc[i] - entry.rest_loc[i],
                                  entry.pose_loc[i] - entry.rest_loc[i]))

\* the location channel of the one-file variant
LegacyLocationWeight(entry, cur_loc) ==
    IF entry.loc_enabled THEN LocationWeight(entry, cur_loc)
    ELSE IF LegacyAxes(entry, cur_loc) = {} THEN 0
    ELSE Clamp01((((LegacyAxisWeight(entry, cur_loc, 1) * LegacyAxisWeight(entry, cur_loc, 2))
                     \div WeightScale) * LegacyAxisWeight(entry, cur_loc, 3)) \div WeightScale)

\* psd_set_result_datablock_only: 1e-6 is below one unit of weight, so every
\* differing value is written
SetResultDatablock(db, key, w) == Put(db, key, w)

\* the channels of one entry, written to the armature datablock; entries keep
\* rot_channel_mode and record_rot_channel_mode at 'NONE'
LegacyChannels(a, entry, db) ==
    LET bn == entry.bone_name
        d == IF entry.is_direct_channel
             THEN SetResultDatablock(db, ResultKey(PREFIX_RESULT, bn, entry.name),
                                     DirectChannelWeight(entry, pose[a][bn].rot))
             ELSE db
        r == IF entry.has_rot
             THEN SetResultDatablock(d, ResultKey(PREFIX_RESULT, bn, entry.name),
                                     RotationWeight(entry, pose[a][bn].rot))
             ELSE d
    IN IF entry.has_loc
       THEN SetResultDatablock(r, ResultKey(PREFIX_RESULT_LOC, bn, entry.name),
                               LegacyLocationWeight(entry, pose[a][bn].loc))
       ELSE r

\* the trigger block, which stands inside the loop over the entries: every
\* trigger from t on, after the channels of entry i
RECURSIVE LegacyTriggers(_, _, _)
LegacyTriggers(a, t, acc) ==
    IF t > Len(acc.trigs) THEN acc
    ELSE LET trig == acc.trigs[t]
             found == trig.bone_name \in ArmBones /\ trig.target_bone \in ArmBones
             w == IF found
                  THEN TriggerWeight(trig, HeadDistance(a, trig.bone_name, trig.target_bone))
                  ELSE 0
         IN LegacyTriggers(a, t + 1,
               IF trig.enabled /\ found
               THEN [db |-> SetResultDatablock(acc.db, TriggerKey(trig), w),
                     trigs |-> [acc.trigs EXCEPT ![t].last_weight = w],
                     order |-> Append(acc.order, [op |-> "trigger", i |-> t])]
               ELSE [acc EXCEPT !.trigs[t].last_weight = 0])

\* for entry in saved: the channels of the entry, then the triggers
RECURSIVE LegacyEntryLoop(_, _, _)
LegacyEntryLoop(a, i, acc) ==
    IF i > Len(psd_saved_poses[a]) THEN acc
    ELSE LegacyEntryLoop(a, i + 1,
            IF Eligible(a, psd_saved_poses[a][i])
            THEN LegacyTriggers(a, 1,
                    [acc EXCEPT !.db = LegacyChannels(a, psd_saved_poses[a][i], @),
                                !.order = Append(@, [op |-> "entry", i |-> i])])
            ELSE acc)

LegacyArm(a) ==
    LegacyEntryLoop(a, 1, [db |-> arm_db[a], trigs |-> psd_triggers[a], order |-> <<>>])

\* the rate limiter of the one-file variant: none while the animation plays
LegacyThrottled ==
    /\ ~is_animation_playing
    /\ since_last_compute * IdleHz(psd_idle_hz) < TicksPerSecond

\* _psd_compute_all of the one-file variant
LegacyComputeAll(kind) ==
    IF LegacyThrottled
    THEN /\ event' = [NoEvent EXCEPT !.kind = kind, !.called = TRUE]
         /\ UNCHANGED <<timeVars, passVars>>
    ELSE /\ since_last_compute' = 0
         /\ since_last_pass' = 0
         /\ arm_db' = [a \in AllArms |-> IF a \in armatures THEN LegacyArm(a).db ELSE arm_db[a]]
         /\ psd_triggers' = [a \in AllArms |->
                IF a \in armatures THEN LegacyArm(a).trigs ELSE psd_triggers[a]]
         /\ event' = [NoEvent EXCEPT
                         !.kind = kind, !.called = TRUE, !.executed = TRUE,
                         !.processed = armatures,
                         !.order = [a \in armatures |-> LegacyArm(a).order]]
         /\ UNCHANGED <<hostVars, psd_saved_poses, psd_saved_pose_index, psd_bone_pairs,
                        cache_empty, storeVars, ghostVars, editVars, driverVars>>

\* psd_frame_handler of the one-file variant
LegacyFrameChange ==
    /\ "psd_frame_handler" \in frame_change_post
    /\ IF psd_mode # "FORCE_TIMER"
       THEN LegacyComputeAll("frame")
       ELSE UNCHANGED <<timeVars, passVars>> /\ event' = [NoEvent EXCEPT !.kind = "frame"]
    /\ UNCHANGED schedVars

\* armatures as the one-file variant finds them: with rotation and location
\* entries and a trigger from L to R
LegacyEntryInputs ==
    {<<[DefaultEntry EXCEPT !.name = <<"p">>, !.bone_name = <<"L">>, !.has_rot = TRUE,
                           !.pose_rot = <<1000, 0, 0>>]>>,
     <<[DefaultEntry EXCEPT !.name = <<"p">>, !.bone_name = <<"L">>, !.has_rot = TRUE,
                           !.pose_rot = <<1000, 0, 0>>],
       [DefaultEntry EXCEPT !.name = <<"q">>, !.bone_name = <<"R">>, !.has_loc = TRUE,
                           !.pose_loc = <<1000, 0, 0>>]>>}

LegacyTriggerInputs ==
    {<<>>,
     <<[name |-> TriggerName, bone_name |-> <<"L">>, target_bone |-> <<"R">>,
        enabled |-> TRUE, radius |-> Resolution \div 5, falloff |-> "LINEAR",
        last_weight |-> 0]>>}

InitLegacy ==
    /\ psd_running = TRUE
    /\ psd_mode = "FORCE_PLAY"
    /\ psd_idle_hz = 10
    /\ is_animation_playing = TRUE
    /\ depsgraph_update_post = {"psd_depsgraph_handler"}
    /\ frame_change_post = {"psd_frame_handler"}
    /\ timers = [fresh |-> 0, old |-> 0]
    /\ notify_pending = FALSE
    /\ psd_timer_registered = FALSE
    /\ msgbus_subscribed = FALSE
    /\ since_last_compute = MaxElapsed
    /\ since_last_pass = MaxElapsed
    /\ cache_empty = [a \in AllArms |-> FALSE]
    /\ InitDriverVars
    /\ armatures = {"arm1"}
    /\ pose = [a \in AllArms |-> [bn \in ArmBones |->
                  [rot |-> Zero3, loc |-> Zero3, sca |-> One3, head |-> 0]]]
    /\ \E saved \in LegacyEntryInputs :
          psd_saved_poses = [a \in AllArms |-> IF a = "arm1" THEN saved ELSE <<>>]
    /\ psd_saved_pose_index = [a \in AllArms |-> -1]
    /\ psd_bone_pairs = [a \in AllArms |-> <<>>]
    /\ \E trigs \in LegacyTriggerInputs :
          psd_triggers = [a \in AllArms |-> IF a = "arm1" THEN trigs ELSE <<>>]
    /\ psd_bone_pairs_index = [a \in AllArms |-> 0]
    /\ psd_trigger_index = [a \in AllArms |-> -1]
    /\ config_file = NoFile
    /\ arm_db = [a \in AllArms |-> <<>>]
    /\ empty_props = [a \in AllArms |-> <<>>]
    /\ psd_bone_state_cache = <<>>
    /\ psd_results_cache = [a \in AllArms |-> <<>>]
    /\ quiet_since_pass = FALSE
    /\ invalidated = {}
    /\ purged = [a \in AllArms |-> {}]
    /\ pass_samples = [a \in AllArms |-> <<>>]
    /\ event = NoEvent

NextLegacy ==
    \/ LegacyFrameChange
    \/ \E bn \in ArmBones, rot \in RotInputs : MoveJoint("arm1", bn, rot)
    \/ \E h \in HeadInputs : MoveHead("arm1", <<"R">>, h)
    \/ \E b \in BOOLEAN : SetTriggerEnabled("arm1", 1, b)

SpecLegacy == InitLegacy /\ [][NextLegacy]_vars

\* ------------------------------------------------- slow drift
\* a joint that moves by less than _PSD_EPS between passes
DriftInputs == {Zero3, <<PsdEps - 1, 0, 0>>, <<2 * PsdEps - 2, 0, 0>>}

NextDrift ==
    \/ FrameChange
    \/ \E rot \in DriftInputs : MoveJoint("arm1", <<"L">>, rot)
    \/ \E bn \in ArmBones :
          SaveCapturedRotationEntry("arm1", <<"p">>, bn, Zero3, <<1000, 0, 0>>)
    \/ AddTrigger("arm1", <<"R">>)
    \/ InvalidateCache("arm1")

SpecDrift == InitPass /\ [][NextDrift]_vars

\* ------------------------------------------------- rejected imports
\* documents an import rejects: text that is not JSON, and a JSON object whose
\* saved_by_bone is a number
ImportInputs ==
    {[exists |-> TRUE, invalid |-> TRUE, bone_pairs |-> <<>>, saved_by_bone |-> <<>>,
      orphan_saved_poses |-> <<>>],
     [exists |-> TRUE, bone_pairs |-> << <<"R">> >>, saved_by_bone |-> JsonNumber,
      orphan_saved_poses |-> <<>>],
     [exists |-> TRUE, bone_pairs |-> << <<"L">> >>, saved_by_bone |-> <<>>,
      orphan_saved_poses |-> <<FileItem(<<"L">>, <<"p">>)>>]}

NextImport ==
    \/ AddBonePair("arm1")
    \/ \E n \in ConfigNameInputs, p \in PoseRotInputs :
          SaveCapturedRotationEntry("arm1", n, <<"L">>, Zero3, p)
    \/ RemoveSavedEntry("arm1")
    \/ \E d \in ImportInputs : WriteConfigFile(d)
    \/ ImportConfig("arm1")

\* one armature importing documents of which some are rejected
SpecImport == InitRoundTrip /\ [][NextImport]_vars

\* ------------------------------------------------------------------ claims
HookKinds == {"frame", "depsgraph"}

\* C1: whenever the scheduler is stopped, both hooks and the play-state
\* notification are detached and no hook or timer step calls a compute pass.
C1_StoppedIsQuiet ==
    ~psd_running =>
        /\ depsgraph_update_post = {}
        /\ frame_change_post = {}
        /\ ~msgbus_subscribed
        /\ (event.kind \in HookKinds \cup {"timer"} => ~event.called)

\* C2: whenever the scheduler runs in FORCE_TIMER a timer is armed, a timer
\* step runs a pass and reschedules itself, and no hook step calls a pass.
C2_ForceTimerDrivenByTimer ==
    (psd_running /\ psd_mode = "FORCE_TIMER") =>
        /\ TimerCount > 0
        /\ (event.kind = "timer" => event.called /\ event.rescheduled)
        /\ (event.kind \in HookKinds => ~event.called)

\* C3: while the scheduler runs in AUTO, an inactive playback leads to an armed
\* timer (or to the end of that situation), and a timer step taken while
\* playback is active does not reschedule.
AutoIdle == psd_running /\ psd_mode = "AUTO" /\ ~is_animation_playing

C3_AutoTimerFollowsPlayback ==
    /\ [](AutoIdle => <>(TimerCount > 0 \/ ~AutoIdle))
    /\ []((psd_running /\ psd_mode = "AUTO" /\ is_animation_playing /\ event.kind = "timer")
            => ~event.rescheduled)

\* C4: while the scheduler runs in FORCE_PLAY the frame hook is attached and
\* every frame step calls a pass, no timer step runs a pass or reschedules,
\* and neither Start nor a play-state notification arms a timer.
C4_ForcePlayDrivenByFrameHook ==
    (psd_running /\ psd_mode = "FORCE_PLAY") =>
        /\ "psd_frame_handler" \in frame_change_post
        /\ (event.kind = "frame" => event.called)
        /\ (event.kind = "timer" => ~event.called /\ ~event.rescheduled)
        /\ (event.kind \in {"start", "notify"} => ~event.armed)

C4_Witness ==
    /\ psd_running /\ psd_mode = "FORCE_PLAY" /\ ~is_animation_playing
    /\ event.kind = "frame" /\ event.called /\ event.executed

\* C5: a timer that was armed before a Stop never runs a pass and never
\* reschedules itself afterwards.
C5_StopCancelsTimer ==
    (event.kind = "timer" /\ event.old) => (~event.called /\ ~event.rescheduled)

\* C6: a pass that executes while playback is inactive starts at least 1/hz
\* after the previous executed pass (hz = idle_hz clamped to [1,240]); no call
\* is dropped while playback is active; the last-run timestamp moves only when
\* a pass executes.
C6_RateLimiter ==
    LET hz == IF psd_idle_hz < 1 THEN 1 ELSE IF psd_idle_hz > 240 THEN 240 ELSE psd_idle_hz
    IN /\ (event.executed /\ ~is_animation_playing) => event.gap * hz >= TicksPerSecond
       /\ (event.called /\ is_animation_playing) => event.executed
       /\ since_last_compute = since_last_pass

C6_Witness ==
    /\ event.executed /\ ~is_animation_playing
    /\ psd_idle_hz = 2 /\ event.gap = 2 /\ since_last_compute = 0

EnabledTriggerBone(a, bn) ==
    \E i \in DOMAIN psd_triggers[a] :
        /\ psd_triggers[a][i].enabled
        /\ bn \in {psd_triggers[a][i].bone_name, psd_triggers[a][i].target_bone}

\* C7: a pass that executes with nothing having happened since the previous
\* executed pass recomputes no entry and writes no result of a joint that no
\* enabled trigger references.
C7_QuietPassRecomputesNothing ==
    (event.executed /\ event.quiet) =>
        /\ \A r \in event.recomputed :
              EnabledTriggerBone(r[1], psd_saved_poses[r[1]][r[2]].bone_name)
        /\ \A w \in event.writes : EnabledTriggerBone(w.arm, w.bone)

\* C7 as the code has it: a pass that executes with nothing having happened
\* since the previous executed pass recomputes no entry and writes no result
\* of a joint that no trigger, enabled or disabled, references.
C7_QuietPassSkipsUntriggered ==
    (event.executed /\ event.quiet) =>
        /\ \A r \in event.recomputed :
              psd_saved_poses[r[1]][r[2]].bone_name \in TriggerBones(r[1])
        /\ \A w \in event.writes : w.bone \in TriggerBones(w.arm)

C7_Witness ==
    /\ event.executed /\ event.quiet /\ event.recomputed = {} /\ event.writes = {}
    /\ \E i \in DOMAIN psd_saved_poses["arm1"] :
          /\ Eligible("arm1", psd_saved_poses["arm1"][i])
          /\ psd_saved_poses["arm1"][i].bone_name \notin TriggerBones("arm1")
    /\ pose["arm1"][<<"L">>].rot = <<1000, 0, 0>>

InStore(a, key, w) ==
    /\ key \in DOMAIN psd_results_cache[a]
    /\ Abs(psd_results_cache[a][key] - w) <= WriteThreshold

\* C8: after every executed pass the in-memory store holds, for each saved
\* entry whose joint is in the filter and was sampled, the weight of each of
\* its channels as a pass without skipping would have stored it.
C8_SkipPreservesResults ==
    event.executed =>
        \A a \in armatures : \A i \in DOMAIN psd_saved_poses[a] :
            LET entry == psd_saved_poses[a][i]
                bn == entry.bone_name
            IN Eligible(a, entry) =>
                /\ entry.has_rot =>
                      InStore(a, ResultKey(PREFIX_RESULT, bn, entry.name),
                              RotationWeight(entry, pose[a][bn].rot))
                /\ entry.has_loc =>
                      InStore(a, ResultKey(PREFIX_RESULT_LOC, bn, entry.name),
                              LocationWeight(entry, pose[a][bn].loc))
                /\ entry.has_sca =>
                      InStore(a, ResultKey(PREFIX_RESULT_SCA, bn, entry.name),
                              ScaleWeight(entry, pose[a][bn].sca))

\* C9: right after the invalidate operator the change-detection cache holds no
\* sample of the affected armatures (the selected one, or all of them when no
\* armature is selected), and the next executed pass recomputes every entry of
\* theirs that it does not pass over.
C9_InvalidateClearsCache ==
    /\ event.kind = "invalidate" =>
          \A a \in (IF event.arm = NoObject THEN armatures ELSE {event.arm}) :
              /\ ArmCache(a, psd_bone_state_cache) = <<>>
              /\ ArmName(a) \notin DOMAIN psd_bone_state_cache
    /\ event.executed =>
          \A a \in event.invalidated : \A i \in DOMAIN psd_saved_poses[a] :
              Eligible(a, psd_saved_poses[a][i]) => <<a, i>> \in event.recomputed

\* C10: the rot/loc/sca keys of a removed entry are in neither the in-memory
\* store, nor the registered Empty, nor the armature datablock, from the
\* removal on (until an entry with these keys is saved again).
C10_RemovePurgesKeys ==
    \A a \in armatures : \A k \in purged[a] :
        /\ k \notin DOMAIN psd_results_cache[a]
        /\ k \notin DOMAIN empty_props[a]
        /\ k \notin DOMAIN arm_db[a]

EntryPairs(saved) == {<<saved[i].bone_name, saved[i].name>> : i \in DOMAIN saved}

\* C11: no two entries of one armature have the same (bone_name, name), and a
\* save or record whose bone already has an entry of the name the new entry
\* would get adds nothing.
C11_EntriesUnique ==
    /\ \A a \in armatures : \A i, j \in DOMAIN psd_saved_poses[a] :
          i # j => <<psd_saved_poses[a][i].bone_name, psd_saved_poses[a][i].name>>
                     # <<psd_saved_poses[a][j].bone_name, psd_saved_poses[a][j].name>>
    /\ (/\ event.kind \in {"save", "record"}
        /\ <<event.bone, StrOr(event.name, DefaultName)>> \in EntryPairs(event.before))
          => psd_saved_poses[event.arm] = event.before

IsPrefix(s, t) == Len(s) <= Len(t) /\ SubSeq(t, 1, Len(s)) = s

\* C12: an import keeps every entry and every filter item it found, in place
\* and unchanged; what it adds are entries of (bone_name, name) pairs that
\* were not there and differ from each other, and filter names that were not
\* there and differ from each other; importing the same document into the
\* same armature twice in a row adds nothing the second time.
C12_ImportMergesWithoutOverwrite ==
    event.kind = "import" =>
        LET saved == psd_saved_poses[event.arm]
            pairs == psd_bone_pairs[event.arm]
            old_n == Len(event.before)
            old_p == Len(event.pairs_before)
        IN /\ IsPrefix(event.before, saved)
           /\ IsPrefix(event.pairs_before, pairs)
           /\ \A i \in (old_n + 1)..Len(saved) :
                 /\ <<saved[i].bone_name, saved[i].name>> \notin EntryPairs(event.before)
                 /\ \A j \in (old_n + 1)..Len(saved) :
                       i # j => <<saved[i].bone_name, saved[i].name>>
                                  # <<saved[j].bone_name, saved[j].name>>
           /\ \A i \in (old_p + 1)..Len(pairs) :
                 /\ \A j \in 1..old_p : pairs[i] # pairs[j]
                 /\ \A j \in (old_p + 1)..Len(pairs) : i # j => pairs[i] # pairs[j]
           /\ event.repeat => (saved = event.before /\ pairs = event.pairs_before)

EntrySet(a) == {psd_saved_poses[a][i] : i \in DOMAIN psd_saved_poses[a]}

\* C13: after an import into an armature that had no entries, of the document
\* an export of another armature's present configuration writes, the two
\* armatures have the same set of entries, attribute by attribute.
C13_ExportImportRoundTrip ==
    \A src \in armatures :
        (/\ event.kind = "import" /\ event.arm # src
         /\ event.before = <<>> /\ event.pairs_before = <<>>
         /\ config_file = ExportData(src))
          => EntrySet(event.arm) = EntrySet(src)

\* C14: any two distinct (kind, joint name, entry name) triples, among them
\* names that differ by a blank against an underscore, names whose boundary
\* between joint and entry shifts, the direct-channel and the rotation result
\* of one entry, and a trigger against a location result, get distinct keys
C14_ResultKeysUnique ==
    (event.kind = "keys" /\ event.input.t1 # event.input.t2)
        => event.result[1] # event.result[2]

\* C15: every value stored by the rotation, location, scale and trigger
\* policies is a number in [0, 1], and a NaN intermediate is stored as 0.0
C15_WeightsClamped ==
    /\ event.kind \in {"rotation", "location", "scale"}
          => event.result \in 0 .. WeightScale
    /\ event.kind = "trigger"
          => \A i \in 1 .. 2 :
                LET d == IF i = 1 THEN event.input.d1 ELSE event.input.d2
                    w == event.result[i]
                IN /\ ~w.nan
                   /\ w.v \in 0 .. WeightScale
                   /\ d.nan => w.v = 0

\* the last step applied the linear projection policy of some channel
IsProjection ==
    \/ event.kind = "rotation" /\ ~event.input.entry.cone_enabled
    \/ event.kind = "location" /\ ~event.input.entry.loc_enabled
    \/ event.kind = "scale"

\* pose - rest and current - rest of the channel of the last step
PoseDir ==
    CASE event.kind = "rotation" ->
             V3Sub(event.input.entry.pose_rot, event.input.entry.rest_rot)
      [] event.kind = "location" ->
             V3Sub(event.input.entry.pose_loc, event.input.entry.rest_loc)
      [] event.kind = "scale" ->
             V3Sub(event.input.entry.pose_sca, event.input.entry.rest_sca)
CurRel ==
    CASE event.kind = "rotation" -> V3Sub(event.input.cur, event.input.entry.rest_rot)
      [] event.kind = "location" -> V3Sub(event.input.cur, event.input.entry.rest_loc)
      [] event.kind = "scale" -> V3Sub(event.input.cur, event.input.entry.rest_sca)

\* one half, to the rounding of the weight scale
Half(w) == Abs(2 * w - WeightScale) <= 2

\* the triangular envelope of t = dot / denom, to one unit of the weight scale,
\* and exactly at t = 0, t = 1 and t = 2
EnvelopeLaw(w, dot, denom) ==
    /\ (dot < 0 \/ dot > 2 * denom) => w = 0
    /\ (0 <= dot /\ dot <= denom) => Abs(w * denom - dot * WeightScale) <= denom
    /\ (denom < dot /\ dot <= 2 * denom)
          => Abs((2 * WeightScale - w) * denom - dot * WeightScale) <= denom
    /\ dot = 0 => w = 0
    /\ dot = denom => w = WeightScale
    /\ dot = 2 * denom => w = 0

\* 1e-6 squared degrees, in squared model units
SquareOfThousandth == (Resolution \div 1000) * (Resolution \div 1000)

\* C16 as stated: for every entry with pose # rest the weight of the linear
\* projection policy follows the triangular envelope
C16_EnvelopeWheneverPoseDiffers ==
    (IsProjection /\ PoseDir # Zero3)
        => EnvelopeLaw(event.result, Dot(CurRel, PoseDir), Dot(PoseDir, PoseDir))

\* the entry of the last step is degenerate: |pose - rest|^2 below 1e-6 for
\* rotation, below 1e-12 for location and scale, which at the resolution of
\* the model is pose = rest
IsDegenerate ==
    IF event.kind = "rotation" THEN Dot(PoseDir, PoseDir) < SquareOfThousandth
    ELSE PoseDir = Zero3

\* C16: for every entry that is not degenerate the weight of the linear
\* projection policy follows the triangular envelope: 0 for t < 0, t on
\* [0, 1], 2 - t on (1, 2], 0 above 2, so 1 at pose, 0 at rest and at
\* rest + 2 (pose - rest)
C16_EnvelopeLaw ==
    (IsProjection /\ ~IsDegenerate)
        => EnvelopeLaw(event.result, Dot(CurRel, PoseDir), Dot(PoseDir, PoseDir))

C16_Witness ==
    /\ event.kind = "location"
    /\ IsProjection
    /\ ~IsDegenerate
    /\ Dot(CurRel, PoseDir) > Dot(PoseDir, PoseDir)
    /\ Dot(CurRel, PoseDir) < 2 * Dot(PoseDir, PoseDir)
    /\ Half(event.result)

\* the weight of a degenerate entry: 1 within the tolerance, 0 outside
DegenerateLaw(within) == event.result = (IF within THEN WeightScale ELSE 0)

\* C17 as stated: an entry of any channel is degenerate exactly when
\* |pose - rest|^2 < 1e-6, and then its weight is 1 if |current - rest| is
\* below 1e-3 (rotation) or 1e-6 (location, scale) and 0 otherwise
C17_DegenerateBelowOneThreshold ==
    (IsProjection /\ Dot(PoseDir, PoseDir) < SquareOfThousandth)
        => DegenerateLaw(IF event.kind = "rotation"
                         THEN Dot(CurRel, CurRel) < SquareOfThousandth
                         ELSE CurRel = Zero3)

\* C17: a rotation entry is degenerate exactly when |pose - rest|^2 < 1e-6, a
\* location or scale entry exactly when |pose - rest|^2 < 1e-12; a degenerate
\* entry has weight 1 if |current - rest| is below 1e-3 (rotation) or 1e-6
\* (location, scale) and 0 otherwise, and every other entry follows the
\* triangular envelope
C17_DegenerateLaw ==
    IsProjection =>
        IF IsDegenerate
        THEN DegenerateLaw(IF event.kind = "rotation"
                           THEN Dot(CurRel, CurRel) < SquareOfThousandth
                           ELSE CurRel = Zero3)
        ELSE EnvelopeLaw(event.result, Dot(CurRel, PoseDir), Dot(PoseDir, PoseDir))

C17_Witness ==
    /\ event.kind = "location"
    /\ IsProjection
    /\ PoseDir # Zero3
    /\ Dot(PoseDir, PoseDir) < SquareOfThousandth
    /\ CurRel = PoseDir
    /\ event.result = WeightScale

\* the last step computed the cone weight of the scenario's entry with the
\* given cone axis at the current rotation (0, 0, z)
ConeScenario(axis, z) ==
    /\ event.kind = "rotation"
    /\ event.input.entry.cone_enabled
    /\ event.input.entry.cone_axis = axis
    /\ event.input.entry.cone_angle = 60
    /\ event.input.entry.pose_rot = <<0, 0, 90 * Resolution>>
    /\ event.input.cur = <<0, 0, z * Resolution>>

\* C18 as stated: with cone_axis 'Z', cone_angle 60 and pose_rot (0, 0, 90)
\* the weight is 1 at (0, 0, 90), 0 at (0, 0, 30) and 0.5 at (0, 0, 60)
C18_ConeScenarioAboutZ ==
    /\ ConeScenario("Z", 90) => event.result = WeightScale
    /\ ConeScenario("Z", 30) => event.result = 0
    /\ ConeScenario("Z", 60) => Half(event.result)

\* C18: with cone_angle 60 and pose_rot (0, 0, 90) the weight is 1 at
\* (0, 0, 90), 0 at (0, 0, 30) and 0.5 at (0, 0, 60) when cone_axis is 'X' or
\* 'Y'; with cone_axis 'Z' a rotation about Z leaves the direction of the
\* axis where it is, and the weight is 1 at all three
C18_ConeScenario ==
    /\ \A axis \in {"X", "Y"} :
          /\ ConeScenario(axis, 90) => event.result = WeightScale
          /\ ConeScenario(axis, 30) => event.result = 0
          /\ ConeScenario(axis, 60) => Half(event.result)
    /\ \A z \in {30, 60, 90} : ConeScenario("Z", z) => event.result = WeightScale

C18_Witness == ConeScenario("Z", 30) /\ event.result = WeightScale

\* the smoothstep 1 - (3t^2 - 2t^3) = (1 - t)^2 (1 + 2t) at t = a / b
SmoothLaw(w, a, b) ==
    Abs(w * b * b * b - WeightScale * (b - a) * (b - a) * (b + 2 * a)) <= 2 * b * b * b

\* C19: with r = max(radius, 1e-6), LINEAR stores clamp(1 - d / r, 0, 1) and
\* SMOOTH stores 1 - (3t^2 - 2t^3) for t = clamp(d / r, 0, 1); both are 1 at
\* d = 0 and 0 for d >= r, neither grows with d, and both are 0.5 at d = 0.1
\* with radius 0.2
C19_TriggerWeight ==
    event.kind = "trigger" =>
        LET trig == event.input.trig
            r == Max(trig.radius, 1)
            g == Resolution \div 20
            Law(d, w) ==
                /\ ~w.nan
                /\ d = 0 => w.v = WeightScale
                /\ d >= r => w.v = 0
                /\ trig.falloff = "LINEAR"
                      => Abs(w.v * r - Max(0, (r - d) * WeightScale)) <= r
                /\ (trig.falloff = "SMOOTH" /\ d < r /\ d % g = 0 /\ r % g = 0)
                      => SmoothLaw(w.v, d \div g, r \div g)
                /\ (d = Resolution \div 10 /\ trig.radius = Resolution \div 5)
                      => Half(w.v)
        IN /\ ~event.input.d1.nan => Law(event.input.d1.v, event.result[1])
           /\ ~event.input.d2.nan => Law(event.input.d2.v, event.result[2])
           /\ (~event.input.d1.nan /\ ~event.input.d2.nan
                  /\ event.input.d1.v <= event.input.d2.v)
                 => event.result[1].v >= event.result[2].v

C19_Witness ==
    /\ event.kind = "trigger"
    /\ event.input.trig.falloff = "SMOOTH"
    /\ event.input.trig.radius = Resolution \div 5
    /\ event.input.d1 = Float(Resolution \div 10)
    /\ event.input.d2 = Float(3 * (Resolution \div 20))
    /\ Half(event.result[1].v)
    /\ event.result[2].v < event.result[1].v
    /\ event.result[2].v > 0

\* C20: in every executed pass each enabled trigger whose source and target
\* joints resolve gets its weight computed and stored, whether the owner has
\* zero, one or many saved entries and whatever the joint filter contains
C20_TriggersIndependentOfEntries ==
    event.executed =>
        \A a \in armatures : \A i \in DOMAIN psd_triggers[a] :
            (/\ psd_triggers[a][i].enabled
             /\ psd_triggers[a][i].bone_name \in ArmBones
             /\ psd_triggers[a][i].target_bone \in ArmBones)
                => /\ <<a, i>> \in event.triggers
                   /\ InStore(a, TriggerKey(psd_triggers[a][i]),
                              TriggerWeight(psd_triggers[a][i],
                                  HeadDistance(a, psd_triggers[a][i].bone_name,
                                               psd_triggers[a][i].target_bone)))

\* the compiled drivers an armature has, or would get from its files
ShapeTargets(a) ==
    IF shape_expressions_cache[a].loaded THEN shape_expressions_cache[a].data
    ELSE LoadShapeDrivers(a)
PoseTargets(a) ==
    IF pose_drivers_cache[a].loaded THEN pose_drivers_cache[a].data
    ELSE LoadPoseDrivers(a)

\* a shape target has an output and its shape key holds it
ShapeTargetApplied(a, post_key, info) ==
    /\ post_key \in DOMAIN psd_math_cache[ShapeCacheKey(a)]
    /\ (info.Mesh_name \in DOMAIN shape_keys /\ post_key \in DOMAIN shape_keys[info.Mesh_name])
          => shape_keys[info.Mesh_name][post_key] = psd_math_cache[ShapeCacheKey(a)][post_key]

\* a pose target has an output and its property is within 0.001 of it
PoseTargetApplied(a, key, info) ==
    PoseTarget(a, key, info) =>
        /\ PropKey(key) \in DOMAIN psd_math_cache[PoseCacheKey(a)]
        /\ ~PoseChanged(constraints[a][key[1]][key[2]][key[3]],
                        psd_math_cache[PoseCacheKey(a)][PropKey(key)])

\* C21: after every executed pass, each processed armature whose in-memory
\* results are not empty has all its shape and pose driver targets evaluated
\* and applied, whatever its output mode is
C21_DriversInBothModes ==
    event.executed =>
        \A a \in event.processed :
            DOMAIN psd_results_cache[a] # {} =>
                /\ \A i \in DOMAIN ShapeTargets(a) :
                      ShapeTargetApplied(a, ShapeTargets(a)[i].key, ShapeTargets(a)[i].info)
                /\ \A i \in DOMAIN PoseTargets(a) :
                      PoseTargetApplied(a, PoseTargets(a)[i].key, PoseTargets(a)[i].info)

\* a variable of the target is bound to a key the results of a do not hold
AbsentVariable(a, info) ==
    \E j \in DOMAIN info.variables :
        /\ Parses(info.variables[j])
        /\ info.variables[j].data_path.key \notin DOMAIN psd_results_cache[a]

\* C22: a target evaluated in a pass while one of its variables names a key
\* that is absent from the results gets the output 0.0, whatever its expression
C22_AbsentKeyYieldsZero ==
    event.executed =>
        \A a \in event.processed :
            /\ \A i \in DOMAIN ShapeTargets(a) :
                  (/\ <<a, ShapeTargets(a)[i].key>> \in event.shape_evaluated
                   /\ AbsentVariable(a, ShapeTargets(a)[i].info))
                  => psd_math_cache[ShapeCacheKey(a)][ShapeTargets(a)[i].key] = 0
            /\ \A i \in DOMAIN PoseTargets(a) :
                  (/\ <<a, PropKey(PoseTargets(a)[i].key)>> \in event.pose_evaluated
                   /\ AbsentVariable(a, PoseTargets(a)[i].info))
                  => psd_math_cache[PoseCacheKey(a)][PropKey(PoseTargets(a)[i].key)] = 0

\* the value of the target's expression on the results of a, as computed:
\* 0.0 when a data path does not parse or the evaluation raises
Unclamped(a, info) ==
    IF \E j \in DOMAIN info.variables : ~Parses(info.variables[j]) THEN 0
    ELSE IF Eval(info.compiled, LocalVars(info.variables, psd_results_cache[a])).raised THEN 0
    ELSE Eval(info.compiled, LocalVars(info.variables, psd_results_cache[a])).v

\* C23: an output computed in a pass is within [0, 1] for a shape key target
\* and is the value of the expression, not clamped, for a constraint property
\* target; an evaluation error gives 0.0
C23_OutputRange ==
    event.executed =>
        \A a \in event.processed :
            /\ \A i \in DOMAIN ShapeTargets(a) :
                  <<a, ShapeTargets(a)[i].key>> \in event.shape_evaluated
                  => psd_math_cache[ShapeCacheKey(a)][ShapeTargets(a)[i].key]
                        = Clamp01(Unclamped(a, ShapeTargets(a)[i].info))
            /\ \A i \in DOMAIN PoseTargets(a) :
                  <<a, PropKey(PoseTargets(a)[i].key)>> \in event.pose_evaluated
                  => psd_math_cache[PoseCacheKey(a)][PropKey(PoseTargets(a)[i].key)]
                        = Unclamped(a, PoseTargets(a)[i].info)

\* the step is an executed pass that handled armature a in APPLY_DRIVERS mode
\* with results in memory
DriverPassFor(a) ==
    /\ event'.executed /\ a \in event'.processed
    /\ psd_output_mode[a] = "APPLY_DRIVERS"
    /\ DOMAIN psd_results_cache'[a] # {}

\* C24: when the step right after a reload of an armature's shape (pose)
\* driver files is an executed pass for it, every shape (pose) target then has
\* the output its newly loaded expression gives on the results in memory
C24_ReloadInvalidates ==
    [][/\ (event.kind = "reload_shape" /\ DriverPassFor(event.arm)) =>
            \A i \in DOMAIN shape_expressions_cache[event.arm].data :
                /\ shape_expressions_cache[event.arm].data[i].key
                      \in DOMAIN psd_math_cache'[ShapeCacheKey(event.arm)]
                /\ psd_math_cache'[ShapeCacheKey(event.arm)]
                                  [shape_expressions_cache[event.arm].data[i].key]
                      = ShapeValue(shape_expressions_cache[event.arm].data[i].info,
                                   psd_results_cache'[event.arm])
       /\ (event.kind = "reload_pose" /\ DriverPassFor(event.arm)) =>
            \A i \in DOMAIN pose_drivers_cache[event.arm].data :
                /\ PropKey(pose_drivers_cache[event.arm].data[i].key)
                      \in DOMAIN psd_math_cache'[PoseCacheKey(event.arm)]
                /\ psd_math_cache'[PoseCacheKey(event.arm)]
                                  [PropKey(pose_drivers_cache[event.arm].data[i].key)]
                      = PoseValue(pose_drivers_cache[event.arm].data[i].info,
                                  psd_results_cache'[event.arm])
      ]_vars

\* C25: an executed pass in which no driver output was computed anew (so none
\* changed by more than 0.001) writes no shape key and no constraint property
C25_WritesOnlyChanges ==
    (/\ event.executed
     /\ event.shape_evaluated = {}
     /\ event.pose_evaluated = {})
    => (event.shape_writes = {} /\ event.pose_writes = {})

\* C26: in every executed pass no exception leaves an armature's iteration
\* and every armature of the scene is processed
C26_OwnerIsolation ==
    event.executed => (~event.raised /\ event.processed = armatures)

\* the Empty of a holds key k with a value within 0.001 of the one in memory
Persisted(a, k) ==
    /\ k \in DOMAIN empty_props[a]
    /\ Abs(empty_props[a][k] - psd_results_cache[a][k]) <= WriteThreshold

\* the claim as stated: after every executed pass, each processed armature
\* whose Empty is registered has every in-memory key in it
C27_FlushWheneverAvailable ==
    event.executed =>
        \A a \in event.processed :
            cache_empty[a] => \A k \in DOMAIN psd_results_cache[a] : Persisted(a, k)

\* C27: an executed pass leaves the Empty's properties of an armature alone
\* and keeps its in-memory keys while no Empty is registered; with the Empty
\* registered and the armature in STORE_TO_EMPTY mode it writes every in-memory
\* key the Empty lacks or holds with a value off by more than 0.001, so that
\* afterwards the Empty has every in-memory key within 0.001
C27_FlushRetried ==
    [][event'.executed =>
          \A a \in event'.processed :
              /\ ~cache_empty[a] =>
                    /\ empty_props'[a] = empty_props[a]
                    /\ DOMAIN psd_results_cache[a] \subseteq DOMAIN psd_results_cache'[a]
              /\ (cache_empty[a] /\ psd_output_mode[a] = "STORE_TO_EMPTY") =>
                    \A k \in DOMAIN psd_results_cache'[a] :
                        /\ k \in DOMAIN empty_props'[a]
                        /\ Abs(empty_props'[a][k] - psd_results_cache'[a][k]) <= WriteThreshold
                        /\ (\/ k \notin DOMAIN empty_props[a]
                            \/ Abs(empty_props[a][k] - psd_results_cache'[a][k]) > WriteThreshold)
                              => empty_props'[a][k] = psd_results_cache'[a][k]
      ]_vars

\* a pass in which no joint had moved and nothing was recomputed wrote the
\* in-memory keys to the Empty that had been missing
C27_Witness ==
    /\ event.executed /\ event.quiet
    /\ event.writes = {}
    /\ "arm1" \in event.flushed
    /\ DOMAIN psd_results_cache["arm1"] # {}
    /\ \A k \in DOMAIN psd_results_cache["arm1"] : Persisted("arm1", k)

\* C28: a rejected import leaves no partial state: after an import that did
\* not finish (file missing or unreadable, or malformed document) the owner's
\* joint-filter list and saved-entry collection are as they were before it.
C28_RejectedImportLeavesState ==
    (event.kind = "import" /\ event.outcome # "FINISHED")
        => /\ psd_bone_pairs[event.arm] = event.pairs_before
           /\ psd_saved_poses[event.arm] = event.before

\* an entry the loaders accept: it has an expression that compiles and
\* variables (and, for a pose entry, an armature name)
ShapeLoadable(info) ==
    info.expression # "" /\ info.variables # <<>> /\ Compiles(info.expression)

PoseLoadable(info) == info.Armature_name # "" /\ ShapeLoadable(info)

\* every acceptable entry of every readable document of files is in the
\* compiled dict under its key, compiled from an acceptable entry of that key
AllLoaded(files, cache, Loadable(_)) ==
    /\ cache # NotLoaded
    /\ \A f \in DOMAIN files :
          (files[f].exists /\ files[f].readable) =>
             \A j \in DOMAIN files[f].raw_data :
                Loadable(files[f].raw_data[j].info) =>
                   \E k \in DOMAIN cache.data :
                      /\ cache.data[k].key = files[f].raw_data[j].key
                      /\ \E g \in DOMAIN files : \E h \in DOMAIN files[g].raw_data :
                            /\ files[g].raw_data[h].key = cache.data[k].key
                            /\ Loadable(files[g].raw_data[h].info)
                            /\ cache.data[k].info.compiled =
                                  files[g].raw_data[h].info.expression

\* C29: driver load isolation: a step that loads an owner's shape or pose
\* drivers (a reload, or the first pass applying drivers) leaves in the
\* compiled dict every entry of every readable document whose expression
\* compiles, whatever other entries failed to compile.
C29_LoadIsolation ==
    [][\A a \in armatures :
          /\ (\/ shape_expressions_cache'[a] # shape_expressions_cache[a]
              \/ (event'.kind = "reload_shape" /\ event'.arm = a))
                => AllLoaded(psd_shape_driver_files'[a], shape_expressions_cache'[a],
                             ShapeLoadable)
          /\ (\/ pose_drivers_cache'[a] # pose_drivers_cache[a]
              \/ (event'.kind = "reload_pose" /\ event'.arm = a))
                => AllLoaded(psd_pose_driver_files'[a], pose_drivers_cache'[a],
                             PoseLoadable)]_vars

\* a reload has just read a document whose first entry does not compile and
\* whose second does, and a second document; the dict holds two keys
C29_Witness ==
    /\ event.kind = "reload_shape"
    /\ psd_shape_driver_files[event.arm] =
          <<BadShapeDoc, ShapeDoc("sk1", "1 - x", StoredKey)>>
    /\ shape_expressions_cache[event.arm] # NotLoaded
    /\ {shape_expressions_cache[event.arm].data[k].key :
           k \in DOMAIN shape_expressions_cache[event.arm].data} = {"sk1", "sk2"}

\* the names of the owner's filter list, and the joints its entries refer to
FilterNames(a) == {psd_bone_pairs[a][i] : i \in DOMAIN psd_bone_pairs[a]} \ {<<>>}
EntryJoints(a) ==
    {psd_saved_poses[a][i].bone_name : i \in DOMAIN psd_saved_poses[a]} \ {<<>>}

\* the pass has sampled joint bn: the state cache holds its current transform
SampleTaken(a, bn) ==
    /\ ArmPtr(a) \in DOMAIN psd_bone_state_cache
    /\ bn \in DOMAIN psd_bone_state_cache[ArmPtr(a)]
    /\ psd_bone_state_cache[ArmPtr(a)][bn] = MakeSample(a, bn)

FilterPass(a) ==
    /\ event.executed /\ a \in event.processed /\ psd_saved_poses[a] # <<>>

\* with names in the filter, the owner's joints named in it are sampled and
\* only entries bound to them are evaluated
C30_NamedJoints ==
    \A a \in armatures :
        (FilterPass(a) /\ FilterNames(a) # {}) =>
            /\ \A bn \in FilterNames(a) \cap ArmBones : SampleTaken(a, bn)
            /\ \A r \in event.recomputed :
                  r[1] = a => psd_saved_poses[a][r[2]].bone_name \in FilterNames(a)

\* C30: joint filter: after an executed pass over an owner, with names in the
\* filter the joints named in it are sampled and only entries bound to them
\* are evaluated; with an empty filter, or one of blank names only, every
\* joint the saved entries refer to is sampled.
C30_JointFilter ==
    /\ C30_NamedJoints
    /\ \A a \in armatures :
          (FilterPass(a) /\ FilterNames(a) = {}) =>
              \A bn \in EntryJoints(a) \cap ArmBones : SampleTaken(a, bn)

\* a step that executes a pass over armature a and reaches its sampling
DriftPass(a) ==
    /\ event'.executed /\ a \in event'.processed /\ psd_saved_poses[a] # <<>>

\* the sample the change detection holds for joint bn before the pass
StoredSample(a, bn) == psd_bone_state_cache[ArmPtr(a)][bn]
HasStoredSample(a, bn) ==
    ArmPtr(a) \in DOMAIN psd_bone_state_cache /\ bn \in DOMAIN psd_bone_state_cache[ArmPtr(a)]

\* all three channels of sample s are defined
FullyDefined(s) == \A i \in 1..3 : s[i] # None

\* every component of s1 is within 1e-5 of that of s2
Within(s1, s2) ==
    \A i \in 1..3 : \A j \in 1..3 : Abs(s1[i][j] - s2[i][j]) <= PsdEps

\* C31 as stated: in each executed pass a joint (that no trigger exempts) is
\* skipped iff the previous pass sampled it, the new sample has all three
\* channels and is within 1e-5 of the previous pass's sample.
C31_SkipAgainstPreviousPass ==
    [][\A a \in armatures : DriftPass(a) =>
          \A bn \in BoneFilter(a) \ TriggerBones(a) :
             (<<a, bn>> \in event'.skipped) <=>
                /\ bn \in DOMAIN pass_samples[a]
                /\ FullyDefined(MakeSample(a, bn)) /\ FullyDefined(pass_samples[a][bn])
                /\ Within(MakeSample(a, bn), pass_samples[a][bn])]_vars

\* C31 amended: a joint is skipped iff no trigger names it, a stored sample
\* of it exists, both samples have all three channels and every component is
\* within 1e-5 of the stored one; a pass that finds the joint within 1e-5
\* keeps the stored sample, any other pass stores the new one.
C31_SkipAgainstStored ==
    [][\A a \in armatures : DriftPass(a) =>
          \A bn \in BoneFilter(a) :
             LET near == /\ HasStoredSample(a, bn)
                         /\ FullyDefined(MakeSample(a, bn)) /\ FullyDefined(StoredSample(a, bn))
                         /\ Within(MakeSample(a, bn), StoredSample(a, bn))
             IN /\ (<<a, bn>> \in event'.skipped) <=> (near /\ bn \notin TriggerBones(a))
                /\ StoredSample(a, bn)' =
                      IF near THEN StoredSample(a, bn) ELSE MakeSample(a, bn)]_vars

\* the joint drifted twice by less than 1e-5: the pass does not skip it
\* though the previous pass sampled it within 1e-5 of where it is now
C31_Witness ==
    /\ event.executed /\ "arm1" \in event.processed
    /\ <<"L">> \in BoneFilter("arm1") \ TriggerBones("arm1")
    /\ <<"arm1", <<"L">> >> \notin event.skipped
    /\ <<"L">> \in DOMAIN event.previous["arm1"]
    /\ event.previous["arm1"][<<"L">>] # MakeSample("arm1", <<"L">>)
    /\ Within(MakeSample("arm1", <<"L">>), event.previous["arm1"][<<"L">>])

\* the joints an enabled trigger of the owner names as source or target
EnabledTriggerJoints(a) ==
    UNION {{psd_triggers[a][i].bone_name, psd_triggers[a][i].target_bone} :
              i \in {j \in DOMAIN psd_triggers[a] : psd_triggers[a][j].enabled}} \ {<<>>}

\* C32: in every executed pass, every entry bound to a joint that an enabled
\* trigger names as source or target (in the filter and sampled) is
\* recomputed, also when the joint's sample is unchanged.
C32_TriggerJointsNeverSkipped ==
    \A a \in armatures :
        (event.executed /\ a \in event.processed) =>
            \A i \in DOMAIN psd_saved_poses[a] :
                (/\ psd_saved_poses[a][i].name # <<>>
                 /\ psd_saved_poses[a][i].bone_name \in Sampled(a)
                 /\ psd_saved_poses[a][i].bone_name \in EnabledTriggerJoints(a))
                    => <<a, i>> \in event.recomputed

\* a pass right after a pass, nothing having moved: the entry of the
\* trigger's joint is recomputed all the same
C32_Witness ==
    /\ event.executed /\ event.quiet /\ "arm1" \in event.processed
    /\ \E i \in DOMAIN psd_saved_poses["arm1"] :
          /\ psd_saved_poses["arm1"][i].bone_name \in EnabledTriggerJoints("arm1")
          /\ HasStoredSample("arm1", psd_saved_poses["arm1"][i].bone_name)
          /\ event.previous["arm1"] # <<>>
          /\ <<"arm1", i>> \in event.recomputed

\* positions of the operations of the given kinds in an owner's pass
OpsAt(o, kinds) == {i \in DOMAIN o : o[i].op \in kinds}

\* C33: within a pass, per owner, every trigger weight is computed before any
\* per-entry channel weight, and both before the owner's flush or driver
\* application; in the package and in the one-file variant.
C33_PassOrdering ==
    event.executed =>
        \A a \in DOMAIN event.order :
            /\ \A i \in OpsAt(event.order[a], {"trigger"}) :
                  \A j \in OpsAt(event.order[a], {"entry"}) : i < j
            /\ \A i \in OpsAt(event.order[a], {"trigger", "entry"}) :
                  \A j \in OpsAt(event.order[a], {"flush", "drivers"}) : i < j


\* a step that executes a pass in which the driver branch of armature a is
\* entered: the mode is APPLY_DRIVERS and the in-memory results have items
DriverPass(a) ==
    /\ event'.executed /\ a \in event'.processed
    /\ psd_output_mode[a] = "APPLY_DRIVERS"
    /\ DOMAIN psd_results_cache'[a] # {}

\* the cached output of target k is the same in both driver caches
SameOutput(old, new, k) ==
    /\ (k \in DOMAIN old) <=> (k \in DOMAIN new)
    /\ k \in DOMAIN old => old[k] = new[k]

\* target k with dependency keys dep_keys was evaluated exactly when it has
\* no tuple of an earlier evaluation or the tuple read now differs from it;
\* when it was not evaluated its output is unchanged
TrackedTarget(cache_key, k, dep_keys, mem, evaluated) ==
    /\ evaluated <=>
          \/ k \notin DOMAIN psd_math_dep_cache[cache_key]
          \/ psd_math_dep_cache[cache_key][k] # CurrentInput(dep_keys, mem)
    /\ ~evaluated => SameOutput(psd_math_cache[cache_key], psd_math_cache'[cache_key], k)

\* C34: in each pass that enters the driver branch of an armature, every
\* shape target and every pose target of the armature is evaluated iff it was
\* never evaluated or its current dependency tuple differs from the one of
\* its last evaluation, and a target that is not evaluated keeps its output
C34_DependencyTracked ==
    [][\A a \in armatures : DriverPass(a) =>
          /\ \A i \in DOMAIN ShapeTargets(a) :
                TrackedTarget(ShapeCacheKey(a), ShapeTargets(a)[i].key,
                              ShapeTargets(a)[i].info.dep_keys, psd_results_cache'[a],
                              <<a, ShapeTargets(a)[i].key>> \in event'.shape_evaluated)
          /\ \A i \in DOMAIN PoseTargets(a) :
                PoseTarget(a, PoseTargets(a)[i].key, PoseTargets(a)[i].info) =>
                    TrackedTarget(PoseCacheKey(a), PropKey(PoseTargets(a)[i].key),
                                  PoseTargets(a)[i].info.dep_keys, psd_results_cache'[a],
                                  <<a, PropKey(PoseTargets(a)[i].key)>> \in event'.pose_evaluated)
      ]_vars

\* ------------------------------------------------- joints the sampling fails for
\* a document whose entries and filter rows name joint X, which the armature
\* does not have: _get_rest_matrix and _get_pose_matrix raise for it in both
\* samplers and pose.bones.get gives None
MissingJoint == <<"X">>

SamplingInputs ==
    {[exists |-> TRUE, bone_pairs |-> << MissingJoint, <<"L">> >>,
      saved_by_bone |-> << <<MissingJoint,
            <<ExportItem(NewRotationEntry(<<"p">>, MissingJoint, Zero3, <<1000, 0, 0>>))>> >> >>,
      orphan_saved_poses |-> <<>>],
     [exists |-> TRUE, bone_pairs |-> <<>>, saved_by_bone |-> <<>>,
      orphan_saved_poses |->
          <<ExportItem(NewRotationEntry(<<"q">>, MissingJoint, Zero3, <<1000, 0, 0>>))>>]}

NextSampling ==
    \/ FrameChange
    \/ \E rot \in RotInputs : MoveJoint("arm1", <<"L">>, rot)
    \/ SaveCapturedRotationEntry("arm1", <<"p">>, <<"L">>, Zero3, <<1000, 0, 0>>)
    \/ \E d \in SamplingInputs : WriteConfigFile(d)
    \/ ImportConfig("arm1")

\* an armature whose entries partly name a joint that cannot be sampled
SpecSampling == InitPass /\ [][NextSampling]_vars

\* the joints of the filter the samplers fail for
Unsampled(a) == BoneFilter(a) \ ArmBones

ChangedKeys(a) ==
    {k \in DOMAIN psd_results_cache'[a] :
        \/ k \notin DOMAIN empty_props[a]
        \/ Abs(empty_props[a][k] - psd_results_cache'[a][k]) > WriteThreshold}

\* C36: the flush of an executed pass (armature in STORE_TO_EMPTY mode, Empty
\* registered, in-memory results not empty) writes to the Empty exactly the
\* in-memory keys that are absent there or differ by more than 0.001, leaves
\* every other property of the Empty as it was, and tags the Empty iff it
\* wrote at least one key
C36_FlushWritesChangedKeys ==
    [][event'.executed =>
          \A a \in event'.processed :
              (/\ psd_output_mode[a] = "STORE_TO_EMPTY" /\ cache_empty[a]
               /\ DOMAIN psd_results_cache'[a] # {}) =>
                  /\ DOMAIN empty_props'[a] = DOMAIN empty_props[a] \cup ChangedKeys(a)
                  /\ \A k \in ChangedKeys(a) : empty_props'[a][k] = psd_results_cache'[a][k]
                  /\ \A k \in DOMAIN empty_props[a] \ ChangedKeys(a) :
                        empty_props'[a][k] = empty_props[a][k]
                  /\ (a \in event'.flushed) <=> (ChangedKeys(a) # {})
      ]_vars

\* a flush wrote one key and tagged the Empty while it left another key alone
\* whose value in the Empty is within 0.001 of the in-memory one but not equal
C36_Witness ==
    /\ event.executed /\ "arm1" \in event.flushed
    /\ \E k \in DOMAIN psd_results_cache["arm1"] \cap DOMAIN empty_props["arm1"] :
          /\ empty_props["arm1"][k] # psd_results_cache["arm1"][k]
          /\ Abs(empty_props["arm1"][k] - psd_results_cache["arm1"][k]) <= WriteThreshold

\* C37: in every reachable state at most one instance of the timer callback
\* is registered with the host, and _psd_timer_registered is true iff one is
C37_SingleTimer ==
    /\ timers.fresh + timers.old <= 1
    /\ psd_timer_registered <=> (timers.fresh + timers.old = 1)

\* ------------------------------------------------- the rate limiter and joint changes
\* the scheduler runs in FORCE_PLAY with both hooks attached; the user moves a
\* joint, toggles playback, and the host reports frame and depsgraph changes
NextLimiter ==
    \/ FrameChange
    \/ DepsgraphUpdate
    \/ TogglePlayback
    \/ Tick
    \/ \E rot \in RotInputs : MoveJoint("arm1", <<"L">>, rot)
    \/ SaveCapturedRotationEntry("arm1", <<"p">>, <<"L">>, Zero3, <<1000, 0, 0>>)

SpecLimiter == InitPass /\ [][NextLimiter]_vars

\* time passes; nothing makes the host report a depsgraph or frame change
\* when nothing changes and the animation does not play
FairLimiter ==
    /\ SpecLimiter
    /\ WF_vars(Tick)

\* the last executed pass did not sample the transform a joint of the filter
\* has now
Stale ==
    \E bn \in BoneFilter("arm1") \cap ArmBones :
        \/ bn \notin DOMAIN pass_samples["arm1"]
        \/ pass_samples["arm1"][bn] # MakeSample("arm1", bn)

\* a pass request was dropped by the minimum-interval check while a joint
\* change is not sampled yet
DroppedRequest == psd_running /\ event.called /\ ~event.executed /\ Stale

\* C38: while the scheduler runs, every pass request the minimum-interval
\* check drops while a joint change is unsampled is followed by an executed
\* pass that samples the joints' final transforms (or by the start of the
\* playback, whose frame changes then request passes that are not limited)
C38_NoChangeLost ==
    [](DroppedRequest => <>(~Stale \/ ~psd_running \/ is_animation_playing))

\* ------------------------------------------------- shape keys no driver targets
\* the owner's driver document targets sk1 or sk2 of mesh Body and is replaced
\* and reloaded between passes
TargetFileInputs ==
    {<<ShapeDoc("sk1", "x", StoredKey)>>, <<ShapeDoc("sk2", "x", StoredKey)>>}

NextTargets ==
    \/ FrameChange
    \/ \E rot \in RotInputs : MoveJoint("arm1", <<"L">>, rot)
    \/ SaveCapturedRotationEntry("arm1", <<"p">>, <<"L">>, Zero3, <<1000, 0, 0>>)
    \/ \E mode \in OutputModes : SetOutputMode("arm1", mode)
    \/ \E files \in TargetFileInputs : WriteShapeDriverFiles("arm1", files)
    \/ ReloadShapeDrivers("arm1")

SpecTargets == InitPass /\ [][NextTargets]_vars

\* C39: in every executed pass, every shape key of a driven mesh that no
\* loaded driver entry of the armature names as its target has the same value
\* after the pass as before it
C39_UntargetedKeysUnchanged ==
    [][event'.executed =>
          \A a \in event'.processed :
              shape_expressions_cache'[a].loaded =>
                  \A m \in DrivenMeshes(shape_expressions_cache'[a].data) \cap DOMAIN shape_keys :
                      \A k \in DOMAIN shape_keys[m] \ MeshGroup(shape_expressions_cache'[a].data, m) :
                          shape_keys'[m][k] = shape_keys[m][k]
      ]_vars

\* ------------------------------------------------- the ends of the envelope
\* an entry authored at 1000 units of rotation about X, so that one unit of
\* rotation is 0.001 of weight; the joint is at rest, near rest, near the
\* authored pose or at it, and a trigger on the joint keeps it from being
\* skipped
EndsPoseRot == <<1000, 0, 0>>
EndsRotInputs == {Zero3, <<1, 0, 0>>, <<999, 0, 0>>, EndsPoseRot}

NextEnds ==
    \/ FrameChange
    \/ \E rot \in EndsRotInputs : MoveJoint("arm1", <<"L">>, rot)
    \/ SaveCapturedRotationEntry("arm1", <<"p">>, <<"L">>, Zero3, EndsPoseRot)
    \/ AddTrigger("arm1", <<"L">>)

SpecEnds == InitPass /\ [][NextEnds]_vars

\* C40: after every executed pass the in-memory value of the rotation key of
\* each entry the pass recomputed equals the weight computed from the joint's
\* current rotation: 1.0 at the authored pose, 0.0 at rest
C40_StoredEqualsComputed ==
    event.executed =>
        \A a \in event.processed : \A i \in DOMAIN psd_saved_poses[a] :
            LET entry == psd_saved_poses[a][i]
                key == ResultKey(PREFIX_RESULT, entry.bone_name, entry.name)
            IN (<<a, i>> \in event.recomputed /\ entry.has_rot /\ ~entry.is_direct_channel) =>
                  /\ key \in DOMAIN psd_results_cache[a]
                  /\ psd_results_cache[a][key] =
                        RotationWeight(entry, pose[a][entry.bone_name].rot)

====
